---------------------------- MODULE Spec2Model ----------------------------
(***************************************************************************)
(* Model of backend/kb_rag_engine.py (KnowledgeBaseRAG): the SQL-agent     *)
(* retry controller query_kb and the pure helpers it relies on.            *)
(*                                                                         *)
(* A text is a sequence of one-character strings, so that substring        *)
(* tests, case conversion and the regular-expression substitution are      *)
(* computed character by character, as Python computes them.               *)
(***************************************************************************)
EXTENDS Integers, Sequences, FiniteSets, TLC

VARIABLES
    pc,              \* position of the call being modelled
    now,             \* datetime.now() of the call: [year, month, day]
    query,           \* query_kb argument
    docs,            \* rows of kb_documents for kb_id
    db_url,          \* TRUE iff SUPABASE_DB_URL is set
    tables_info,     \* query_kb local
    enhanced_query,  \* query_kb local
    complexity,      \* query_kb local
    attempt,         \* query_kb local
    agent_error,     \* query_kb local (NoError = None)
    answer,          \* query_kb local
    sql_queries,     \* query_kb local
    wait_time,       \* query_kb local, the pending time.sleep argument
    attempts,        \* history: one record per agent attempt, in order
    sleeps,          \* history: the arguments of the completed time.sleep calls
    result,          \* the dict query_kb returned (NoResult before it returns)
    raised,          \* history: the exception caught by query_kb's outer handler
    fn_in,           \* input of the pure function under study
    fn_out           \* its output

vars == << pc, now, query, docs, db_url, tables_info, enhanced_query, complexity,
           attempt, agent_error, answer, sql_queries, wait_time, attempts, sleeps,
           result, raised, fn_in, fn_out >>

kbVars == << now, query, docs, db_url, tables_info, enhanced_query, complexity,
             attempt, agent_error, answer, sql_queries, wait_time, attempts, sleeps,
             result, raised >>

\* None, where a text is expected
NoError == <<"None">>
\* query_kb has not returned
NoResult == [ returned |-> FALSE ]

-----------------------------------------------------------------------------
(* Characters and texts: a text is a sequence of pieces, a piece being one *)
(* character wherever the program looks inside the text                    *)

LowerLetters == <<"a","b","c","d","e","f","g","h","i","j","k","l","m","n","o","p","q","r","s","t","u","v","w","x","y","z">>
UpperLetters == <<"A","B","C","D","E","F","G","H","I","J","K","L","M","N","O","P","Q","R","S","T","U","V","W","X","Y","Z">>
Digits == <<"0","1","2","3","4","5","6","7","8","9">>

Range(f) == { f[i] : i \in DOMAIN f }

LowerSet == Range(LowerLetters)
UpperSet == Range(UpperLetters)
DigitSet == Range(Digits)
\* the characters \w matches, among those the model uses
WordSet == DigitSet \cup LowerSet \cup UpperSet \cup {"_"}

IndexOf(c, letters) == CHOOSE i \in DOMAIN letters : letters[i] = c

ToLower == [ c \in UpperSet |-> LowerLetters[IndexOf(c, UpperLetters)] ]
ToUpper == [ c \in LowerSet |-> UpperLetters[IndexOf(c, LowerLetters)] ]

\* str.lower() / str.upper(), one character
LowerChar(c) == IF c \in UpperSet THEN ToLower[c] ELSE c
UpperChar(c) == IF c \in LowerSet THEN ToUpper[c] ELSE c

\* str.lower() / str.upper()
Lower(s) == [ i \in 1..Len(s) |-> LowerChar(s[i]) ]
Upper(s) == [ i \in 1..Len(s) |-> UpperChar(s[i]) ]

\* s[i:i+len(p)] == p  (i is 1-based)
MatchesAt(s, p, i) == /\ i >= 1
                      /\ i + Len(p) - 1 <= Len(s)
                      /\ \A k \in 1..Len(p) : s[i + k - 1] = p[k]

\* Python's  p in s
Contains(s, p) == \E i \in 1..(Len(s) - Len(p) + 1) : MatchesAt(s, p, i)

\* Python's  s.count(p): the non-overlapping occurrences, scanning from the left
RECURSIVE CountFrom(_, _, _)
CountFrom(s, p, i) ==
    IF i + Len(p) - 1 > Len(s) THEN 0
    ELSE IF MatchesAt(s, p, i) THEN 1 + CountFrom(s, p, i + Len(p))
    ELSE CountFrom(s, p, i + 1)

Count(s, p) == CountFrom(s, p, 1)

\* the texts made of at most n fragments of frags, concatenated
RECURSIVE Concats(_, _)
Concats(frags, n) ==
    IF n = 0 THEN { <<>> }
    ELSE LET shorter == Concats(frags, n - 1)
         IN  shorter \cup { s \o f : s \in shorter, f \in frags }

\* the texts over alphabet of length at most n
RECURSIVE Strings(_, _)
Strings(alphabet, n) ==
    IF n = 0 THEN { <<>> }
    ELSE LET shorter == Strings(alphabet, n - 1)
         IN  shorter \cup { Append(s, c) : s \in shorter, c \in alphabet }

-----------------------------------------------------------------------------
(* _remove_decimals_from_response: re.sub(r'\b(\d+)\.\d+\b', r'\1', s)     *)

IsDigit(c) == c \in DigitSet

\* \w of the re module
IsWordChar(c) == c \in WordSet

\* \b between s[i-1] and s[i] (i in 1..Len(s)+1)
WordBoundary(s, i) ==
    LET before == i >= 2 /\ IsWordChar(s[i - 1])
        after  == i <= Len(s) /\ IsWordChar(s[i])
    IN  before # after

AllDigits(s, a, b) == 1 <= a /\ a <= b /\ b <= Len(s) /\ \A k \in a..b : IsDigit(s[k])

\* the ways  \b(\d+)\.\d+\b  matches at i: <<j, k>> with group 1 = s[i..j], the
\* dot at j+1 and the fraction s[j+2..k]
DecimalMatches(s, i) ==
    IF ~ WordBoundary(s, i) THEN {}
    ELSE
    { m \in (i..Len(s)) \X (i..Len(s)) :
        /\ AllDigits(s, i, m[1])
        /\ m[1] + 1 <= Len(s) /\ s[m[1] + 1] = "."
        /\ AllDigits(s, m[1] + 2, m[2])
        /\ WordBoundary(s, m[2] + 1) }

\* the match the backtracking engine reports: both \d+ are greedy, the first
\* is tried longest first
GreedyMatch(ms) ==
    CHOOSE m \in ms : \A o \in ms : o[1] < m[1] \/ (o[1] = m[1] /\ o[2] <= m[2])

RECURSIVE SubDecimalsFrom(_, _)
SubDecimalsFrom(s, i) ==
    IF i > Len(s) THEN <<>>
    ELSE LET ms == DecimalMatches(s, i)
         IN  IF ms = {} THEN <<s[i]>> \o SubDecimalsFrom(s, i + 1)
             ELSE LET m == GreedyMatch(ms)
                  IN  SubSeq(s, i, m[1]) \o SubDecimalsFrom(s, m[2] + 1)

RemoveDecimalsFromResponse(response) == SubDecimalsFrom(response, 1)

-----------------------------------------------------------------------------
(* _classify_error_type                                                    *)

TimeoutPatterns ==
    << <<"i","t","e","r","a","t","i","o","n"," ","l","i","m","i","t">>,   \* 'iteration limit'
       <<"t","i","m","e"," ","l","i","m","i","t">>,   \* 'time limit'
       <<"t","i","m","e","d"," ","o","u","t">>,   \* 'timed out'
       <<"t","i","m","e","o","u","t">> >>   \* 'timeout'

ParsingPatterns ==
    << <<"c","o","u","l","d"," ","n","o","t"," ","p","a","r","s","e">>,   \* 'could not parse'
       <<"p","a","r","s","i","n","g"," ","e","r","r","o","r">>,   \* 'parsing error'
       <<"i","n","v","a","l","i","d"," ","f","o","r","m","a","t">> >>   \* 'invalid format'

RateLimitPatterns ==
    << <<"r","a","t","e"," ","l","i","m","i","t">>,   \* 'rate limit'
       <<"4","2","9">>,   \* '429'
       <<"t","o","o"," ","m","a","n","y"," ","r","e","q","u","e","s","t","s">> >>   \* 'too many requests'

DatabasePatterns ==
    << <<"s","y","n","t","a","x"," ","e","r","r","o","r">>,   \* 'syntax error'
       <<"d","o","e","s"," ","n","o","t"," ","e","x","i","s","t">>,   \* 'does not exist'
       <<"p","e","r","m","i","s","s","i","o","n"," ","d","e","n","i","e","d">> >>   \* 'permission denied'

\* any(pattern in error_str for pattern in [...])
AnyPatternIn(patterns, s) == \E k \in DOMAIN patterns : Contains(s, patterns[k])

\* as ClassifyErrorType, with the database patterns tested before the others
ClassifyErrorType_DatabaseFirst(error) ==
    LET error_str == Lower(error)
    IN  IF AnyPatternIn(DatabasePatterns, error_str)
        THEN [ error_type |-> "database", should_retry |-> FALSE, wait_seconds |-> 0,
               user_message |-> "Database query error" ]
        ELSE IF AnyPatternIn(TimeoutPatterns, error_str)
        THEN [ error_type |-> "timeout", should_retry |-> TRUE, wait_seconds |-> 0,
               user_message |-> "Query taking longer than expected, retrying with extended timeout..." ]
        ELSE IF AnyPatternIn(ParsingPatterns, error_str)
        THEN [ error_type |-> "parsing", should_retry |-> TRUE, wait_seconds |-> 2,
               user_message |-> "Reformatting query, please wait..." ]
        ELSE IF AnyPatternIn(RateLimitPatterns, error_str)
        THEN [ error_type |-> "rate_limit", should_retry |-> TRUE, wait_seconds |-> 10,
               user_message |-> "API rate limit reached, waiting before retry..." ]
        ELSE [ error_type |-> "other", should_retry |-> TRUE, wait_seconds |-> 2,
               user_message |-> "Unexpected error, retrying..." ]

ClassifyErrorType(error) ==
    LET error_str == Lower(error)
    IN  IF AnyPatternIn(TimeoutPatterns, error_str)
        THEN [ error_type |-> "timeout", should_retry |-> TRUE, wait_seconds |-> 0,
               user_message |-> "Query taking longer than expected, retrying with extended timeout..." ]
        ELSE IF AnyPatternIn(ParsingPatterns, error_str)
        THEN [ error_type |-> "parsing", should_retry |-> TRUE, wait_seconds |-> 2,
               user_message |-> "Reformatting query, please wait..." ]
        ELSE IF AnyPatternIn(RateLimitPatterns, error_str)
        THEN [ error_type |-> "rate_limit", should_retry |-> TRUE, wait_seconds |-> 10,
               user_message |-> "API rate limit reached, waiting before retry..." ]
        ELSE IF AnyPatternIn(DatabasePatterns, error_str)
        THEN [ error_type |-> "database", should_retry |-> FALSE, wait_seconds |-> 0,
               user_message |-> "Database query error" ]
        ELSE [ error_type |-> "other", should_retry |-> TRUE, wait_seconds |-> 2,
               user_message |-> "Unexpected error, retrying..." ]

-----------------------------------------------------------------------------
(* _classify_query_complexity                                              *)

KwJoin == <<"J","O","I","N">>
KwGroupBy == <<"G","R","O","U","P"," ","B","Y">>
KwHaving == <<"H","A","V","I","N","G">>
KwSelect == <<"S","E","L","E","C","T">>

TemporalWords ==
    << <<"l","a","s","t">>,   \* 'last'
       <<"p","r","e","v","i","o","u","s">>,   \* 'previous'
       <<"y","e","a","r">>,   \* 'year'
       <<"m","o","n","t","h">> >>   \* 'month'

\* as ComplexityScore, with +2 for every JOIN of the query
ComplexityScore_PerJoin(q) ==
    LET query_upper == Upper(q)
    IN    2 * Count(query_upper, KwJoin)
        + (IF Contains(query_upper, KwGroupBy) THEN 1 ELSE 0)
        + (IF Contains(query_upper, KwHaving) THEN 2 ELSE 0)
        + (IF Count(query_upper, KwSelect) > 1 THEN 3 ELSE 0)
        + (IF AnyPatternIn(TemporalWords, q) THEN 1 ELSE 0)

\* the local complexity_score when the classification is made
ComplexityScore(q) ==
    LET query_upper == Upper(q)
    IN    (IF Contains(query_upper, KwJoin) THEN 2 ELSE 0)
        + (IF Contains(query_upper, KwGroupBy) THEN 1 ELSE 0)
        + (IF Contains(query_upper, KwHaving) THEN 2 ELSE 0)
        + (IF Count(query_upper, KwSelect) > 1 THEN 3 ELSE 0)
        + (IF AnyPatternIn(TemporalWords, q) THEN 1 ELSE 0)

TierOfScore_StrictBounds(complexity_score) ==
    IF complexity_score < 2 THEN "simple"
    ELSE IF complexity_score < 5 THEN "moderate"
    ELSE "complex"

TierOfScore(complexity_score) ==
    IF complexity_score <= 2 THEN "simple"
    ELSE IF complexity_score <= 5 THEN "moderate"
    ELSE "complex"

ClassifyQueryComplexity(q) == TierOfScore(ComplexityScore(q))

-----------------------------------------------------------------------------
(* Numbers in texts                                                        *)

\* str(n) for n >= 0
RECURSIVE NatToText(_)
NatToText(n) == IF n < 10 THEN << Digits[n + 1] >>
                ELSE NatToText(n \div 10) \o << Digits[(n % 10) + 1] >>

\* str(n) / f"{n}"
IntToText(n) == IF n < 0 THEN <<"-">> \o NatToText(-n) ELSE NatToText(n)

\* strftime's zero-padded field of the given width
RECURSIVE ZeroPad(_, _)
ZeroPad(text, width) == IF Len(text) >= width THEN text ELSE ZeroPad(<<"0">> \o text, width)

\* int(digits)
RECURSIVE TextToNat(_)
TextToNat(ds) == IF ds = <<>> THEN 0
                 ELSE 10 * TextToNat(SubSeq(ds, 1, Len(ds) - 1)) + (IndexOf(ds[Len(ds)], Digits) - 1)

Min(S) == CHOOSE x \in S : \A y \in S : x <= y
Max(S) == CHOOSE x \in S : \A y \in S : x >= y

-----------------------------------------------------------------------------
(* _enhance_time_based_query                                               *)

TxtLast == <<"l","a","s","t">>
TxtYear == <<"y","e","a","r">>
TxtMonth == <<"m","o","n","t","h">>
TxtThisYear == <<"t","h","i","s"," ","y","e","a","r">>
TxtRecent == <<"r","e","c","e","n","t">>
TxtLy == <<"l","y">>
TxtIn == <<"i","n">>
TxtTwenty == <<"2","0">>

IsLeapYear(y) == (y % 4 = 0 /\ y % 100 # 0) \/ y % 400 = 0

DaysInMonth(y, m) == IF m = 2 THEN (IF IsLeapYear(y) THEN 29 ELSE 28)
                     ELSE IF m \in {4, 6, 9, 11} THEN 30 ELSE 31

\* datetime.replace(year=y, month=m) of date d: the error it raises, or NoError
ReplaceError(d, y, m) ==
    IF y < 1 \/ y > 9999 THEN <<"year ">> \o IntToText(y) \o <<" is out of range">>
    ELSE IF m < 1 \/ m > 12 THEN <<"month must be in 1..12">>
    ELSE IF d.day > DaysInMonth(y, m) THEN <<"day is out of range for month">>
    ELSE NoError

\* re.search(r'last (\d+) <unit>s?', q, re.IGNORECASE): the matches <<i, j>>, the
\* pattern starting at i and group 1 being q[i+5..j]
LastNMatches(q, unit) ==
    LET low == Lower(q)
    IN  { m \in (1..Len(q)) \X (1..Len(q)) :
            /\ MatchesAt(low, TxtLast \o <<" ">>, m[1])
            /\ AllDigits(q, m[1] + 5, m[2])
            /\ MatchesAt(low, <<" ">> \o unit, m[2] + 1) }

\* int(match.group(1)) of the leftmost match
LastNValue(q, unit) ==
    LET ms == LastNMatches(q, unit)
        i  == Min({ m[1] : m \in ms })
        j  == Max({ m[2] : m \in { x \in ms : x[1] = i } })
    IN  TextToNat(SubSeq(q, i + 5, j))

\* re.search(r'\bthis year\b', q, re.IGNORECASE)
HasThisYear(q) ==
    \E i \in 1..Len(q) : /\ MatchesAt(Lower(q), TxtThisYear, i)
                         /\ WordBoundary(q, i) /\ WordBoundary(q, i + Len(TxtThisYear))

\* re.search(r'\brecent(ly)?\b', q, re.IGNORECASE)
HasRecent(q) ==
    \E i \in 1..Len(q) :
        /\ MatchesAt(Lower(q), TxtRecent, i) /\ WordBoundary(q, i)
        /\ \/ WordBoundary(q, i + Len(TxtRecent))
           \/ /\ MatchesAt(Lower(q), TxtLy, i + Len(TxtRecent))
              /\ WordBoundary(q, i + Len(TxtRecent) + Len(TxtLy))

\* re.search(r'\b(in|year) (20\d{2})\b', q, re.IGNORECASE): the matches <<i, g>>,
\* the pattern starting at i and group 2 being q[g..g+3]
SpecificYearMatches(q) ==
    { m \in (1..Len(q)) \X (1..Len(q)) :
        \E w \in { TxtIn, TxtYear } :
            /\ m[2] = m[1] + Len(w) + 1
            /\ MatchesAt(Lower(q), w \o <<" ">> \o TxtTwenty, m[1])
            /\ WordBoundary(q, m[1])
            /\ AllDigits(q, m[2] + 2, m[2] + 3)
            /\ WordBoundary(q, m[2] + 4) }

\* strftime('%Y-%m') and strftime('%Y-%m-%d'), for years of four digits
YearMonthText(y, m) == IntToText(y) \o <<"-">> \o ZeroPad(IntToText(m), 2)
DateText(d) == YearMonthText(d.year, d.month) \o <<"-">> \o ZeroPad(IntToText(d.day), 2)

\* start_month and start_year_adj of Pattern 2, before replace() is called
StartMonthRaw(current, n) == current.month - n
StartYearAdj(current, n) ==
    IF StartMonthRaw(current, n) <= 0
    THEN current.year + (StartMonthRaw(current, n) \div 12) - 1
    ELSE current.year
StartMonth(current, n) ==
    IF StartMonthRaw(current, n) <= 0
    THEN 12 + (StartMonthRaw(current, n) % 12)
    ELSE StartMonthRaw(current, n)

HintYears(q, current) ==
    IF LastNMatches(q, TxtYear) = {} THEN <<>>
    ELSE LET n == LastNValue(q, TxtYear)
         IN  << <<"l","a","s","t"," ">> \o IntToText(n) \o <<" ","y","e","a","r","(","s",")"," ","="," ">> \o IntToText(current.year - n)
                \o <<" ","t","o"," ">> \o IntToText(current.year) >>

HintMonths(q, current) ==
    IF LastNMatches(q, TxtMonth) = {} THEN <<>>
    ELSE LET n == LastNValue(q, TxtMonth)
         IN  << <<"l","a","s","t"," ">> \o IntToText(n) \o <<" ","m","o","n","t","h","(","s",")"," ","="," ">>
                \o YearMonthText(StartYearAdj(current, n), StartMonth(current, n))
                \o <<" ","t","o"," ">> \o YearMonthText(current.year, current.month) >>

HintThisYear(q, current) ==
    IF HasThisYear(q) THEN << <<"t","h","i","s"," ","y","e","a","r"," ","="," ">> \o IntToText(current.year) >> ELSE <<>>

HintRecent(q, current) ==
    IF HasRecent(q) THEN << <<"r","e","c","e","n","t"," ","="," ","c","l","o","s","e","r"," ","t","o"," ">> \o DateText(current) >> ELSE <<>>

HintSpecificYear(q) ==
    IF SpecificYearMatches(q) = {} THEN <<>>
    ELSE LET ms == SpecificYearMatches(q)
             g  == (CHOOSE m \in ms : \A o \in ms : m[1] <= o[1])[2]
         IN  << <<"s","p","e","c","i","f","i","c"," ","y","e","a","r"," ","="," ">> \o SubSeq(q, g, g + 3) >>

\* "; ".join(hints)
RECURSIVE JoinHints(_)
JoinHints(hints) ==
    IF hints = <<>> THEN <<>>
    ELSE IF Len(hints) = 1 THEN hints[1]
    ELSE hints[1] \o <<";"," ">> \o JoinHints(Tail(hints))

\* the error datetime.replace raises in Pattern 2, or NoError
EnhanceError(q, current) ==
    IF LastNMatches(q, TxtMonth) = {} THEN NoError
    ELSE LET n == LastNValue(q, TxtMonth)
         IN  ReplaceError(current, StartYearAdj(current, n), StartMonth(current, n))

\* the value _enhance_time_based_query returns when it does not raise
EnhanceTimeBasedQuery(q, current) ==
    LET hints == HintYears(q, current) \o HintMonths(q, current) \o HintThisYear(q, current)
                 \o HintRecent(q, current) \o HintSpecificYear(q)
    IN  IF hints = <<>> THEN q
        ELSE q \o <<" ","[","D","a","t","e"," ","c","o","n","t","e","x","t",":"," ">> \o JoinHints(hints) \o <<"]">>

-----------------------------------------------------------------------------
(* _should_generate_visualization                                          *)

ExplicitVizKeywords ==
    << 
       <<"v","i","s","u","a","l","i","z","e">>,
       <<"v","i","s","u","a","l","i","z","a","t","i","o","n">>,
       <<"v","i","s","u","a","l","i","s","e">>,
       <<"c","h","a","r","t">>,
       <<"p","l","o","t">>,
       <<"g","r","a","p","h">>,
       <<"d","i","a","g","r","a","m">>,
       <<"s","h","o","w">>,
       <<"d","i","s","p","l","a","y">>,
       <<"d","r","a","w">>,
       <<"c","r","e","a","t","e"," ","a">>,
       <<"g","e","n","e","r","a","t","e"," ","a">>,
       <<"m","a","k","e"," ","a">>,
       <<"b","u","i","l","d"," ","a">>,
       <<"h","i","s","t","o","g","r","a","m">>,
       <<"b","a","r"," ","c","h","a","r","t">>,
       <<"l","i","n","e"," ","c","h","a","r","t">>,
       <<"p","i","e"," ","c","h","a","r","t">>,
       <<"s","c","a","t","t","e","r"," ","p","l","o","t">> >>

ShouldVisualize(q) == AnyPatternIn(ExplicitVizKeywords, Lower(q))

-----------------------------------------------------------------------------
(* process_structured_for_kb (main.py): the rows query_kb finds             *)

TxtKbData == <<"k","b","_","d","a","t","a","_">>

\* re.sub(r'[^a-zA-Z0-9]', '_', filename)
SafeFilename(filename) ==
    [ i \in 1..Len(filename) |->
        IF filename[i] \in LowerSet \cup UpperSet \cup DigitSet
        THEN filename[i] ELSE "_" ]

\* f'kb_data_{kb_id[:8]}_{safe_filename}'.lower()
TableNameFor(kb_id, filename) ==
    Lower(TxtKbData \o SubSeq(kb_id, 1, IF Len(kb_id) < 8 THEN Len(kb_id) ELSE 8)
          \o <<"_">> \o SafeFilename(filename))

\* the kb_documents row of a CSV / Excel file
StructuredDoc(kb_id, filename) ==
    [ filename |-> filename,
      metadata |-> [ postgres_table |-> TableNameFor(kb_id, filename),
                     table_name     |-> TableNameFor(kb_id, filename),
                     column_names   |-> <<>>,
                     row_count      |-> 0 ] ]

\* the kb_documents row of a PDF / DOCX / TXT file: no table in its metadata
TextDoc(filename) == [ filename |-> filename, metadata |-> [ column_names |-> <<>> ] ]

-----------------------------------------------------------------------------
(* query_kb                                                                *)

TIMEOUT_CONFIGS ==
    [ simple   |-> [ max_iterations |-> 15, max_execution_time |-> 90 ],
      moderate |-> [ max_iterations |-> 25, max_execution_time |-> 150 ],
      complex  |-> [ max_iterations |-> 35, max_execution_time |-> 240 ] ]

max_retries == 3
backoff_multiplier == 2

RECURSIVE Pow(_, _)
Pow(b, e) == IF e = 0 THEN 1 ELSE b * Pow(b, e - 1)

\* bool(text) of an Optional[str]
Truthy(text) == text # NoError /\ text # <<>>

\* dict.get(key), None when the key is missing
DictGet(d, key) == IF key \in DOMAIN d THEN d[key] ELSE NoError

\* dict.get(key, default)
DictGetOr(d, key, default) == IF key \in DOMAIN d THEN d[key] ELSE default

\* Step 2: the tables of the documents that have one
RECURSIVE ExtractTables(_)
ExtractTables(ds) ==
    IF ds = <<>> THEN <<>>
    ELSE LET metadata   == ds[1].metadata
             first      == DictGet(metadata, "postgres_table")
             table_name == IF Truthy(first) THEN first ELSE DictGet(metadata, "table_name")
         IN  (IF Truthy(table_name)
              THEN << [ table_name |-> table_name,
                        filename   |-> ds[1].filename,
                        columns    |-> DictGetOr(metadata, "column_names", <<>>),
                        row_count  |-> DictGetOr(metadata, "row_count", 0) ] >>
              ELSE <<>>)
             \o ExtractTables(Tail(ds))

\* the dict of the outer  except Exception as e
UnexpectedErrorResult(e) ==
    [ error    |-> e,
      response |-> <<"I encountered an error: ">> \o e,
      sources  |-> <<>> ]

\* as SelectConfig, with the query's own tier on every attempt
SelectConfig_OwnTier(n, tier) == TIMEOUT_CONFIGS[tier]

\* the config of the attempt numbered n
SelectConfig(n, tier) == IF n = 0 THEN TIMEOUT_CONFIGS[tier] ELSE TIMEOUT_CONFIGS["complex"]

\* the tool inputs of the steps that are tuples whose action has a tool_input
RECURSIVE ExtractToolInputs(_)
ExtractToolInputs(steps) ==
    IF steps = <<>> THEN <<>>
    ELSE (IF Len(steps[1]) > 0 /\ "tool_input" \in DOMAIN steps[1][1]
          THEN << steps[1][1].tool_input >> ELSE <<>>)
         \o ExtractToolInputs(Tail(steps))

\* as WaitTime, with a backoff that grows linearly
WaitTime_Linear(error_info, n) == error_info.wait_seconds + backoff_multiplier * n

\* wait_time of the retry that follows attempt n
WaitTime(error_info, n) == error_info.wait_seconds + Pow(backoff_multiplier, n)

\* as StopsRetrying, without the test of should_retry
StopsRetrying_BudgetOnly(error_info, n) == n = max_retries - 1

\* the break condition of the except branch
StopsRetrying(error_info, n) == ~ error_info.should_retry \/ n = max_retries - 1

\* as TableMentioned, without lowercasing the tool input
TableMentioned_CaseSensitive(table_info, sql_query) == Contains(sql_query, table_info.table_name)

\* table_info['table_name'] in sql_query.lower()
TableMentioned(table_info, sql_query) == Contains(Lower(sql_query), table_info.table_name)

\* the inner loop over tables_info for one sql_query
RECURSIVE MarkTables(_, _, _)
MarkTables(used, sql_query, tables) ==
    IF tables = <<>> THEN used
    ELSE MarkTables(IF TableMentioned(tables[1], sql_query) /\ tables[1].filename \notin Range(used)
                    THEN Append(used, tables[1].filename) ELSE used,
                    sql_query, Tail(tables))

\* tables_used after the loop over sql_queries
RECURSIVE TablesUsedFrom(_, _, _)
TablesUsedFrom(used, queries, tables) ==
    IF queries = <<>> THEN used
    ELSE TablesUsedFrom(MarkTables(used, queries[1], tables), Tail(queries), tables)

TablesUsed(queries, tables) == TablesUsedFrom(<<>>, queries, tables)

Filenames(tables) == [ i \in 1..Len(tables) |-> tables[i].filename ]

\* the dict returned when  agent_error and attempt == max_retries
AgentFailedResult(error, tables) ==
    [ error          |-> error,
      response       |-> <<"I encountered an error after ">> \o IntToText(max_retries)
                         \o <<" attempts: ">> \o error
                         \o <<"\n\nThis query may be too complex. Try simplifying your question or breaking it into smaller parts.">>,
      sources        |-> <<>>,
      method         |-> "sql_agent_failed",
      tables_queried |-> Filenames(tables),
      num_sources    |-> 0 ]

\* response_dict of the SQL agent branch
AgentResult(ans, queries, tables) ==
    [ response       |-> ans,
      sources        |-> <<>>,
      method         |-> "sql_agent",
      sql_queries    |-> queries,
      tables_queried |-> TablesUsed(queries, tables),
      num_sources    |-> Len(TablesUsed(queries, tables)) ]

\* the test after the retry loop
AllRetriesFailed(error, n) == Truthy(error) /\ n = max_retries

\* as FinalResult, with the failure dict whenever an attempt has failed
FinalResult_AnyError(error, n, ans, queries, tables) ==
    IF Truthy(error) THEN AgentFailedResult(error, tables)
    ELSE AgentResult(ans, queries, tables)

\* what query_kb returns after the retry loop
FinalResult(error, n, ans, queries, tables) ==
    IF AllRetriesFailed(error, n) THEN AgentFailedResult(error, tables)
    ELSE AgentResult(ans, queries, tables)

-----------------------------------------------------------------------------
(* Inputs of the pure functions, each studied under its own specification  *)

MaxErrFrags == 2
MaxTextLen == 5
MaxQueryFrags == 3

\* pieces of error messages; adjacent pieces join into the patterns
\* ("time" + " limit", "4" + "29") and some are in upper or mixed case
ErrorFragments ==
    { <<"t","i","m","e","o","u","t">>,   \* 'timeout'
      <<"T","i","m","e","O","u","t">>,   \* 'TimeOut'
      <<"t","i","m","e","d"," ","o","u","t">>,   \* 'timed out'
      <<"i","t","e","r","a","t","i","o","n">>,   \* 'iteration'
      <<"t","i","m","e">>,   \* 'time'
      <<"R","a","t","e">>,   \* 'Rate'
      <<"r","a","t","e">>,   \* 'rate'
      <<" ","l","i","m","i","t">>,   \* ' limit'
      <<" ","L","I","M","I","T">>,   \* ' LIMIT'
      <<"c","o","u","l","d"," ","n","o","t"," ","p","a","r","s","e">>,   \* 'could not parse'
      <<"P","a","r","s","i","n","g"," ","E","r","r","o","r">>,   \* 'Parsing Error'
      <<"i","n","v","a","l","i","d"," ","f","o","r","m","a","t">>,   \* 'invalid format'
      <<"4","2","9">>,   \* '429'
      <<"4">>,   \* '4'
      <<"2","9">>,   \* '29'
      <<"t","o","o"," ","m","a","n","y"," ","r","e","q","u","e","s","t","s">>,   \* 'too many requests'
      <<"s","y","n","t","a","x"," ","e","r","r","o","r">>,   \* 'syntax error'
      <<"S","Y","N","T","A","X"," ","E","R","R","O","R">>,   \* 'SYNTAX ERROR'
      <<"d","o","e","s"," ","n","o","t"," ","e","x","i","s","t">>,   \* 'does not exist'
      <<"p","e","r","m","i","s","s","i","o","n"," ","d","e","n","i","e","d">>,   \* 'permission denied'
      <<"x">>,   \* 'x'
      <<" ">> }   \* ' '

ErrorTexts == Concats(ErrorFragments, MaxErrFrags)

DecimalAlphabet == { "1", "5", ".", "a", " " }

DecimalExamples ==
    { <<"G","R","P","S"," ","i","s"," ","3","1","5","9",".","6","8","2">>,   \* 'GRPS is 3159.682'
      <<"v","e","r","s","i","o","n"," ","3",".","1","4",".","2">> }          \* 'version 3.14.2'

ResponseTexts == Strings(DecimalAlphabet, MaxTextLen) \cup DecimalExamples

\* pieces of queries: the complexity markers in several letter cases and a filler
QueryFragments ==
    { <<"J","O","I","N"," ">>,   \* 'JOIN '
      <<"j","o","i","n"," ">>,   \* 'join '
      <<"G","R","O","U","P"," ","B","Y"," ">>,   \* 'GROUP BY '
      <<"g","r","o","u","p"," ","b","y"," ">>,   \* 'group by '
      <<"H","a","v","i","n","g"," ">>,   \* 'Having '
      <<"s","e","l","e","c","t"," ","a"," ","f","r","o","m"," ","(","s","e","l","e","c","t"," ","b",")"," ">>,   \* 'select a from (select b) '
      <<"S","E","L","E","C","T"," ">>,   \* 'SELECT '
      <<"l","a","s","t"," ">>,   \* 'last '
      <<"L","A","S","T"," ">>,   \* 'LAST '
      <<"p","r","e","v","i","o","u","s"," ">>,   \* 'previous '
      <<"y","e","a","r"," ">>,   \* 'year '
      <<"M","o","n","t","h"," ">>,   \* 'Month '
      <<"m","o","n","t","h"," ">>,   \* 'month '
      <<"t","o","t","a","l"," ">> }   \* 'total '

QueryTexts == Concats(QueryFragments, MaxQueryFrags)

-----------------------------------------------------------------------------
(* The calls of query_kb that are studied                                  *)

MaxSteps == 2

KbId == <<"K","1">>

FileA == <<"A",".","c","s","v">>
FileB == <<"b",".","c","s","v">>
FileN == <<"n",".","t","x","t">>

\* the documents of the knowledge base: none, a text file only, two tables and
\* a text file
DocSets ==
    { <<>>,
      << TextDoc(FileN) >>,
      << StructuredDoc(KbId, FileA), TextDoc(FileN), StructuredDoc(KbId, FileB) >> }

Queries ==
    { <<"t","o","t","a","l"," ","s","a","l","e","s">>,
      <<"J","O","I","N"," ","a"," ","J","O","I","N"," ","b"," ","G","R","O","U","P"," ","B","Y"," ","c">>,
      <<"s","e","l","e","c","t"," ","x"," ","f","r","o","m"," ","(","s","e","l","e","c","t"," ","y",")"," ","j","o","i","n"," ","z"," ","h","a","v","i","n","g"," ","w">>,
      <<"a"," ","h","a","v","i","n","g"," ","b"," ","L","A","S","T"," ","2"," ","Y","E","A","R","S">>,
      <<"s","a","l","e","s"," ","l","a","s","t"," ","4"," ","m","o","n","t","h","s">>,
      <<"s","h","o","w"," ","s","a","l","e","s"," ","c","h","a","r","t">> }

Dates == { [ year |-> 2026, month |-> 11, day |-> 5 ], [ year |-> 2026, month |-> 3, day |-> 31 ] }

\* what the agent raises: one text of each classification
AgentErrors ==
    { <<"T","i","m","e","d"," ","o","u","t">>,
      <<"C","o","u","l","d"," ","n","o","t"," ","p","a","r","s","e">>,
      <<"H","T","T","P"," ","4","2","9">>,
      <<"d","o","e","s"," ","n","o","t"," ","e","x","i","s","t">>,
      <<"b","o","o","m">> }

\* result["output"] of a run that ends
AgentOutputs == { <<>>, <<"i","s"," ","3","1",".","5">>, <<"o","k">> }

ToolInputs ==
    { <<"S","E","L","E","C","T"," ","*"," ","F","R","O","M"," ","K","B","_","D","A","T","A","_","K","1","_","A","_","C","S","V">>,
      <<"s","e","l","e","c","t"," ","*"," ","f","r","o","m"," ","\"","k","b","_","d","a","t","a","_","k","1","_","b","_","c","s","v","\"">>,
      <<"S","E","L","E","C","T"," ","1">> }

\* result["intermediate_steps"]: (action, observation) tuples; an action need
\* not have a tool_input
StepChoices ==
    { << [ tool |-> "sql_db_query", tool_input |-> ti ], <<"observation">> >> : ti \in ToolInputs }
    \cup { << [ log |-> "thought" ], <<"observation">> >> }

AgentSteps == Strings(StepChoices, MaxSteps)

\* what the collaborators outside the retry loop raise
LookupErrors == { <<"connection refused">> }
SetupErrors == { <<"could not connect to the database">> }
VizErrors == { <<"table not found">> }

Init ==
    /\ pc = "start"
    /\ now \in Dates
    /\ query \in Queries
    /\ docs \in DocSets
    /\ db_url \in BOOLEAN
    /\ tables_info = <<>> /\ enhanced_query = <<>> /\ complexity = ""
    /\ attempt = 0 /\ agent_error = NoError /\ answer = <<>> /\ sql_queries = <<>>
    /\ wait_time = 0 /\ attempts = <<>> /\ sleeps = <<>>
    /\ result = NoResult /\ raised = NoError
    /\ fn_in = <<>> /\ fn_out = <<>>

\* return from inside the outer try
Return(r) == /\ result' = r
             /\ pc' = "done"

\* the outer  except Exception as e
Catch(e) == /\ raised' = e
            /\ Return(UnexpectedErrorResult(e))

\* Steps 1 and 2: the lookup of the documents and the extraction of their tables
LoadTables ==
    /\ pc = "start"
    /\ \/ \E e \in LookupErrors :
            /\ Catch(e)
            /\ UNCHANGED tables_info
       \/ /\ docs = <<>>
          /\ Return([ error    |-> <<"No documents found in this knowledge base">>,
                      response |-> <<"No documents found in this knowledge base. Please upload a file first.">>,
                      sources  |-> <<>> ])
          /\ UNCHANGED << tables_info, raised >>
       \/ /\ docs # <<>>
          /\ ExtractTables(docs) = <<>>
          /\ Return([ error    |-> <<"No Postgres tables found">>,
                      response |-> <<"No queryable data found in this knowledge base.">>,
                      sources  |-> <<>> ])
          /\ UNCHANGED << tables_info, raised >>
       \/ /\ docs # <<>>
          /\ ExtractTables(docs) # <<>>
          /\ tables_info' = ExtractTables(docs)
          /\ pc' = "setup"
          /\ UNCHANGED << result, raised >>
    /\ UNCHANGED << now, query, docs, db_url, enhanced_query, complexity, attempt, agent_error,
                    answer, sql_queries, wait_time, attempts, sleeps, fn_in, fn_out >>

\* Steps 3 and 4 up to the retry loop: the connection, the enhanced query, the
\* visualization branch and the initialisation of the loop
SetupAgent ==
    /\ pc = "setup"
    /\ \/ /\ ~ db_url
          /\ Return([ error    |-> <<"SUPABASE_DB_URL not configured">>,
                      response |-> <<"Database connection not configured. Please check server settings.">>,
                      sources  |-> <<>> ])
          /\ UNCHANGED << raised, enhanced_query, complexity >>
       \/ /\ db_url
          /\ \E e \in SetupErrors : Catch(e)
          /\ UNCHANGED << enhanced_query, complexity >>
       \/ /\ db_url
          /\ EnhanceError(query, now) # NoError
          /\ Catch(EnhanceError(query, now))
          /\ UNCHANGED << enhanced_query, complexity >>
       \/ /\ db_url
          /\ EnhanceError(query, now) = NoError
          /\ enhanced_query' = EnhanceTimeBasedQuery(query, now)
          /\ IF ShouldVisualize(query)
             THEN /\ pc' = "visualize"
                  /\ UNCHANGED complexity
             ELSE /\ complexity' = ClassifyQueryComplexity(enhanced_query')
                  /\ pc' = "attempt"
          /\ UNCHANGED << result, raised >>
    /\ UNCHANGED << now, query, docs, db_url, tables_info, attempt, agent_error,
                    answer, sql_queries, wait_time, attempts, sleeps, fn_in, fn_out >>

\* _generate_visualization_directly, which query_kb returns as it is
Visualize ==
    /\ pc = "visualize"
    /\ \/ \E e \in VizErrors :
            Return([ error    |-> e,
                     response |-> <<"I encountered an error generating the visualization: ">> \o e,
                     sources  |-> <<>> ])
       \/ Return([ error    |-> <<"Chart generation failed">>,
                   response |-> <<"I couldn't generate the visualization.">>,
                   sources  |-> <<>> ])
       \/ \E summary \in AgentOutputs :
            Return([ response       |-> RemoveDecimalsFromResponse(summary),
                     sources        |-> <<>>,
                     method         |-> "direct_visualization",
                     tables_queried |-> << tables_info[1].filename >>,
                     num_sources    |-> 1 ])
    /\ UNCHANGED << now, query, docs, db_url, tables_info, enhanced_query, complexity, attempt,
                    agent_error, answer, sql_queries, wait_time, attempts, sleeps, raised,
                    fn_in, fn_out >>

\* the head of the while loop and the try up to the agent's invocation
StartAttempt ==
    /\ pc = "attempt"
    /\ attempt < max_retries
    /\ attempts' = Append(attempts, [ attempt |-> attempt,
                                      config  |-> SelectConfig(attempt, complexity),
                                      outcome |-> "running",
                                      error   |-> NoError,
                                      output  |-> <<>>,
                                      steps   |-> <<>> ])
    /\ pc' = "running"
    /\ UNCHANGED << now, query, docs, db_url, tables_info, enhanced_query, complexity, attempt,
                    agent_error, answer, sql_queries, wait_time, sleeps, result, raised,
                    fn_in, fn_out >>

\* sql_agent.invoke returns: the rest of the try, and the break
AgentSucceeds_NoBreak(output, steps) ==
    /\ pc = "running"
    /\ answer' = RemoveDecimalsFromResponse(output)
    /\ sql_queries' = sql_queries \o ExtractToolInputs(steps)
    /\ attempts' = [ attempts EXCEPT ![Len(attempts)] =
                        [ @ EXCEPT !.outcome = "success", !.output = output, !.steps = steps ] ]
    /\ pc' = "attempt"
    /\ UNCHANGED << now, query, docs, db_url, tables_info, enhanced_query, complexity, attempt,
                    agent_error, wait_time, sleeps, result, raised, fn_in, fn_out >>
AgentSucceeds(output, steps) ==
    /\ pc = "running"
    /\ answer' = RemoveDecimalsFromResponse(output)
    /\ sql_queries' = sql_queries \o ExtractToolInputs(steps)
    /\ attempts' = [ attempts EXCEPT ![Len(attempts)] =
                        [ @ EXCEPT !.outcome = "success", !.output = output, !.steps = steps ] ]
    /\ pc' = "after_loop"
    /\ UNCHANGED << now, query, docs, db_url, tables_info, enhanced_query, complexity, attempt,
                    agent_error, wait_time, sleeps, result, raised, fn_in, fn_out >>

\* create_sql_agent or sql_agent.invoke raises e: the except branch up to the
\* break or to the call of time.sleep
AgentFails(e) ==
    /\ pc = "running"
    /\ agent_error' = e
    /\ attempts' = [ attempts EXCEPT ![Len(attempts)] =
                        [ @ EXCEPT !.outcome = "error", !.error = e ] ]
    /\ IF StopsRetrying(ClassifyErrorType(e), attempt)
       THEN /\ pc' = "after_loop"
            /\ UNCHANGED wait_time
       ELSE /\ wait_time' = WaitTime(ClassifyErrorType(e), attempt)
            /\ pc' = "sleeping"
    /\ UNCHANGED << now, query, docs, db_url, tables_info, enhanced_query, complexity, attempt,
                    answer, sql_queries, sleeps, result, raised, fn_in, fn_out >>

\* time.sleep(wait_time) returns; attempt += 1 and the loop test
Backoff ==
    /\ pc = "sleeping"
    /\ sleeps' = Append(sleeps, wait_time)
    /\ attempt' = attempt + 1
    /\ pc' = IF attempt + 1 < max_retries THEN "attempt" ELSE "after_loop"
    /\ UNCHANGED << now, query, docs, db_url, tables_info, enhanced_query, complexity,
                    agent_error, answer, sql_queries, wait_time, attempts, result, raised,
                    fn_in, fn_out >>

\* after the loop: the failure test, the tables used and the response
Finish ==
    /\ pc = "after_loop"
    /\ Return(FinalResult(agent_error, attempt, answer, sql_queries, tables_info))
    /\ UNCHANGED << now, query, docs, db_url, tables_info, enhanced_query, complexity, attempt,
                    agent_error, answer, sql_queries, wait_time, attempts, sleeps, raised,
                    fn_in, fn_out >>

Next ==
    \/ LoadTables
    \/ SetupAgent
    \/ Visualize
    \/ StartAttempt
    \/ \E output \in AgentOutputs, steps \in AgentSteps : AgentSucceeds(output, steps)
    \/ \E e \in AgentErrors : AgentFails(e)
    \/ Backoff
    \/ Finish

Spec == Init /\ [][Next]_vars

-----------------------------------------------------------------------------
(* The pure functions, applied to every input of their bounded sets        *)

\* query_kb is not running
IdleKb ==
    /\ now = [ year |-> 0, month |-> 0, day |-> 0 ]
    /\ query = <<>> /\ docs = <<>> /\ db_url = FALSE
    /\ tables_info = <<>> /\ enhanced_query = <<>> /\ complexity = ""
    /\ attempt = 0 /\ agent_error = NoError /\ answer = <<>> /\ sql_queries = <<>>
    /\ wait_time = 0 /\ attempts = <<>> /\ sleeps = <<>> /\ result = NoResult
    /\ raised = NoError

InitClassifyError == pc = "input" /\ fn_in \in ErrorTexts /\ fn_out = <<>> /\ IdleKb

CallClassifyErrorType ==
    /\ pc = "input"
    /\ fn_out' = ClassifyErrorType(fn_in)
    /\ pc' = "output"
    /\ UNCHANGED << fn_in, kbVars >>

SpecClassifyError == InitClassifyError /\ [][CallClassifyErrorType]_vars

InitDecimals == pc = "input" /\ fn_in \in ResponseTexts /\ fn_out = <<>> /\ IdleKb

CallRemoveDecimals ==
    /\ pc = "input"
    /\ fn_out' = RemoveDecimalsFromResponse(fn_in)
    /\ pc' = "output"
    /\ UNCHANGED << fn_in, kbVars >>

SpecDecimals == InitDecimals /\ [][CallRemoveDecimals]_vars

InitComplexity == pc = "input" /\ fn_in \in QueryTexts /\ fn_out = <<>> /\ IdleKb

CallClassifyQueryComplexity ==
    /\ pc = "input"
    /\ fn_out' = [ complexity_score |-> ComplexityScore(fn_in),
                   tier |-> ClassifyQueryComplexity(fn_in) ]
    /\ pc' = "output"
    /\ UNCHANGED << fn_in, kbVars >>

SpecComplexity == InitComplexity /\ [][CallClassifyQueryComplexity]_vars

-----------------------------------------------------------------------------
(* Claims about the pure functions                                         *)

\* p occurs in s when letter case is ignored
OccursIgnoringCase(s, p) ==
    \E i \in 1..(Len(s) - Len(p) + 1) :
        \A k \in 1..Len(p) : LowerChar(s[i + k - 1]) = LowerChar(p[k])

\* the policy table of the error classifier, in its priority order
ErrorPolicy ==
    << [ kind |-> "timeout",    patterns |-> TimeoutPatterns,   retryable |-> TRUE,  wait |-> 0 ],
       [ kind |-> "parsing",    patterns |-> ParsingPatterns,   retryable |-> TRUE,  wait |-> 2 ],
       [ kind |-> "rate_limit", patterns |-> RateLimitPatterns, retryable |-> TRUE,  wait |-> 10 ],
       [ kind |-> "database",   patterns |-> DatabasePatterns,  retryable |-> FALSE, wait |-> 0 ] >>

GroupsHit(text) ==
    { g \in DOMAIN ErrorPolicy :
        \E k \in DOMAIN ErrorPolicy[g].patterns : OccursIgnoringCase(text, ErrorPolicy[g].patterns[k]) }

TextTimeout == <<"t","i","m","e","o","u","t">>
TextSyntaxError == <<"s","y","n","t","a","x"," ","e","r","r","o","r">>

\* C5: _classify_error_type decides by the first of the groups timeout, parsing,
\* rate_limit, database that has a pattern occurring in the error text, letter
\* case ignored, and answers that group's kind, retry flag and base wait; with no
\* group matching it answers other, retryable, wait 2. A text holding both
\* "timeout" and "syntax error" is classified timeout.
C5_FirstMatchingGroupDecides ==
    pc = "output" =>
        LET hit == GroupsHit(fn_in)
        IN  /\ hit = {} =>
                /\ fn_out.error_type = "other"
                /\ fn_out.should_retry = TRUE
                /\ fn_out.wait_seconds = 2
            /\ hit # {} =>
                LET first == CHOOSE g \in hit : \A h \in hit : g <= h
                IN  /\ fn_out.error_type = ErrorPolicy[first].kind
                    /\ fn_out.should_retry = ErrorPolicy[first].retryable
                    /\ fn_out.wait_seconds = ErrorPolicy[first].wait
            /\ (OccursIgnoringCase(fn_in, TextTimeout) /\ OccursIgnoringCase(fn_in, TextSyntaxError))
                   => fn_out.error_type = "timeout"

\* a text with "SYNTAX ERROR" before "TimeOut" has been classified, as timeout
C5_Witness ==
    /\ pc = "output"
    /\ fn_in = <<"S","Y","N","T","A","X"," ","E","R","R","O","R">> \o <<"T","i","m","e","O","u","t">>
    /\ fn_out.error_type = "timeout"

\* a dotted number of s: the digit groups s[a..], ..., s[..b], joined by single
\* dots, that no further group extends on either side
IsDottedNumber(s, a, b) ==
    /\ 1 <= a /\ a <= b /\ b <= Len(s)
    /\ IsDigit(s[a]) /\ IsDigit(s[b])
    /\ \A k \in a..b : IsDigit(s[k]) \/ (s[k] = "." /\ IsDigit(s[k - 1]) /\ IsDigit(s[k + 1]))
    /\ ~ (a >= 2 /\ IsDigit(s[a - 1]))
    /\ ~ (a >= 3 /\ s[a - 1] = "." /\ IsDigit(s[a - 2]))
    /\ ~ (b + 1 <= Len(s) /\ IsDigit(s[b + 1]))
    /\ ~ (b + 2 <= Len(s) /\ s[b + 1] = "." /\ IsDigit(s[b + 2]))

DotsIn(s, a, b) == Cardinality({ k \in a..b : s[k] = "." })

\* a standalone number digits.digits: one dot, and no word character beside it
IsStandaloneDecimal(s, a, b) ==
    /\ IsDottedNumber(s, a, b)
    /\ DotsIn(s, a, b) = 1
    /\ ~ (a >= 2 /\ IsWordChar(s[a - 1]))
    /\ ~ (b + 1 <= Len(s) /\ IsWordChar(s[b + 1]))

\* s with every standalone number cut to its integer part and all else kept
RECURSIVE TruncateStandaloneFrom(_, _)
TruncateStandaloneFrom(s, i) ==
    IF i > Len(s) THEN <<>>
    ELSE LET ends == { b \in i..Len(s) : IsDottedNumber(s, i, b) }
         IN  IF ends = {} THEN <<s[i]>> \o TruncateStandaloneFrom(s, i + 1)
             ELSE LET b == CHOOSE e \in ends : TRUE
                      dot == CHOOSE k \in i..b : s[k] = "."
                  IN  IF IsStandaloneDecimal(s, i, b)
                      THEN SubSeq(s, i, dot - 1) \o TruncateStandaloneFrom(s, b + 1)
                      ELSE SubSeq(s, i, b) \o TruncateStandaloneFrom(s, b + 1)

\* C6: _remove_decimals_from_response cuts every standalone number digits.digits
\* to its integer part and leaves everything else, the multi-dot tokens such as
\* the 3.14.2 of "version 3.14.2" among it, unchanged.
C6_MultiDotTokensKept ==
    pc = "output" => fn_out = TruncateStandaloneFrom(fn_in, 1)

\* the number of JOINs in q, and the other complexity markers, in any letter case
JoinClauses(q) == Cardinality({ i \in 1..Len(q) : \A k \in 1..Len(KwJoin) :
                                  i + k - 1 <= Len(q) /\ UpperChar(q[i + k - 1]) = KwJoin[k] })
HasGroupBy(q) == OccursIgnoringCase(q, KwGroupBy)
HasHaving(q) == OccursIgnoringCase(q, KwHaving)
HasNestedSelect(q) == Cardinality({ i \in 1..Len(q) : \A k \in 1..Len(KwSelect) :
                                  i + k - 1 <= Len(q) /\ UpperChar(q[i + k - 1]) = KwSelect[k] }) > 1
HasTemporalWord(q) == \E k \in DOMAIN TemporalWords : OccursIgnoringCase(q, TemporalWords[k])

TwoJoinsAndGroupByOnly(q) ==
    /\ JoinClauses(q) >= 2 /\ HasGroupBy(q)
    /\ ~ HasHaving(q) /\ ~ HasNestedSelect(q) /\ ~ HasTemporalWord(q)

NoComplexityMarker(q) ==
    /\ JoinClauses(q) = 0 /\ ~ HasGroupBy(q)
    /\ ~ HasHaving(q) /\ ~ HasNestedSelect(q) /\ ~ HasTemporalWord(q)

\* C7 as stated: a query with two JOINs and a GROUP BY and no other marker scores
\* at least 6 and is complex; a query with no marker scores 0 and is simple.
C7_TwoJoinsGroupByComplex ==
    pc = "output" =>
        /\ TwoJoinsAndGroupByOnly(fn_in) => (fn_out.complexity_score >= 6 /\ fn_out.tier = "complex")
        /\ NoComplexityMarker(fn_in) => (fn_out.complexity_score = 0 /\ fn_out.tier = "simple")

\* C7 amended: a query with two JOINs and a GROUP BY and no other marker scores
\* exactly 3 (the join weight counts once) and is moderate; a query with no
\* marker scores 0 and is simple.
C7_TwoJoinsGroupByModerate ==
    pc = "output" =>
        /\ TwoJoinsAndGroupByOnly(fn_in) => (fn_out.complexity_score = 3 /\ fn_out.tier = "moderate")
        /\ NoComplexityMarker(fn_in) => (fn_out.complexity_score = 0 /\ fn_out.tier = "simple")

\* "JOIN join GROUP BY " has been classified
C7_Witness ==
    /\ pc = "output"
    /\ fn_in = <<"J","O","I","N"," ","j","o","i","n"," ","G","R","O","U","P"," ","B","Y"," ">>
    /\ TwoJoinsAndGroupByOnly(fn_in)
    /\ fn_out.tier = "moderate"

-----------------------------------------------------------------------------
(* Claims about query_kb                                                   *)

LastAttempt == attempts[Len(attempts)]

\* the retry loop has ended
LoopEnded == pc \in { "after_loop", "done" } /\ attempts # <<>>

\* the loop has ended and its last attempt failed: no attempt succeeded
LoopFailed == LoopEnded /\ LastAttempt.outcome = "error"

IsRetryable(e) == ClassifyErrorType(e).should_retry

\* C1: when the retry loop ends without a successful attempt, query_kb returns
\* the sql_agent_failed result, with the last error text, an explanation and no
\* sources, never a result of method sql_agent.
C1_FailedLoopReturnsFailure ==
    (pc = "done" /\ LoopFailed) =>
        /\ "error" \in DOMAIN result
        /\ result.method = "sql_agent_failed"
        /\ result.error = LastAttempt.error
        /\ Len(result.response) > 0
        /\ result.sources = <<>>

C3_DatabaseErrorEndsLoop ==
    \A i \in DOMAIN attempts :
        ( /\ attempts[i].outcome = "error"
          /\ ClassifyErrorType(attempts[i].error).error_type = "database" ) =>
            /\ i = Len(attempts)
            /\ pc \in { "after_loop", "done" }
            /\ Len(sleeps) = i - 1

\* the second attempt failed with a database error and query_kb has returned
C3_Witness ==
    /\ pc = "done"
    /\ Len(attempts) = 2
    /\ attempts[2].outcome = "error"
    /\ ClassifyErrorType(attempts[2].error).error_type = "database"
    /\ Len(sleeps) = 1

\* C4: attempt 0 runs with the pair of the query's own tier, every later attempt
\* with the pair of the complex tier, and no attempt has a smaller
\* max_iterations or max_execution_time than an earlier one.
C4_ConfigPerAttempt ==
    /\ (pc = "running" /\ Len(attempts) = 1) =>
          attempts[1].config = TIMEOUT_CONFIGS[ClassifyQueryComplexity(enhanced_query)]
    /\ \A i \in DOMAIN attempts :
          attempts[i].config = IF i = 1 THEN TIMEOUT_CONFIGS[complexity]
                               ELSE TIMEOUT_CONFIGS.complex
    /\ \A i \in DOMAIN attempts : \A j \in DOMAIN attempts :
          i < j => /\ attempts[i].config.max_iterations <= attempts[j].config.max_iterations
                   /\ attempts[i].config.max_execution_time <= attempts[j].config.max_execution_time

\* a query of the simple tier is on its second attempt
C4_Witness ==
    /\ Len(attempts) >= 2
    /\ complexity = "simple"
    /\ attempts[1].config = [ max_iterations |-> 15, max_execution_time |-> 90 ]
    /\ attempts[2].config = [ max_iterations |-> 35, max_execution_time |-> 240 ]

\* the tool inputs of the steps, in order
ToolInputsOf(steps) ==
    LET withInput == SelectSeq(steps, LAMBDA st : "tool_input" \in DOMAIN st[1])
    IN  [ i \in 1..Len(withInput) |-> withInput[i][1].tool_input ]

HasNoDuplicate(seq) == Cardinality(Range(seq)) = Len(seq)

C9_SuccessEndsLoopAndIsReturned ==
    /\ \A i \in DOMAIN attempts :
          attempts[i].outcome = "success" => (i = Len(attempts) /\ pc \in { "after_loop", "done" })
    /\ (pc = "done" /\ LoopEnded /\ LastAttempt.outcome = "success") =>
          /\ "error" \notin DOMAIN result
          /\ result.method = "sql_agent"
          /\ result.response = RemoveDecimalsFromResponse(LastAttempt.output)
          /\ result.sql_queries = ToolInputsOf(LastAttempt.steps)

\* the third attempt succeeded after two failures, with a decimal in its output
\* and two steps, and query_kb has returned
C9_Witness ==
    /\ pc = "done"
    /\ Len(attempts) = 3
    /\ LastAttempt.outcome = "success"
    /\ Len(LastAttempt.steps) = 2
    /\ LastAttempt.output = <<"i","s"," ","3","1",".","5">>
    /\ result.response = <<"i","s"," ","3","1">>
    /\ Len(result.sql_queries) = 1

\* C10: whenever a collaborator or an internal step of query_kb has failed, the
\* result query_kb returns holds an error text and a readable response.
C10_FailuresReturnErrorRecord ==
    (pc = "done" /\ (raised # NoError \/ LoopFailed)) =>
        /\ "error" \in DOMAIN result
        /\ "response" \in DOMAIN result
        /\ Len(result.error) > 0
        /\ Len(result.response) > 0

-----------------------------------------------------------------------------
(* The retrieval helpers of KnowledgeBaseRAG.  __init__ assigns self.llm   *)
(* and self.supabase only: embedding_model, reranker and qdrant are        *)
(* attributes of the engine object that exist only if something attached   *)
(* them, and cosine_similarity is a module name that is bound only if      *)
(* something bound it.  Reading an attribute that was never attached       *)
(* raises AttributeError, calling an unbound name raises NameError.        *)

\* state of an optional attribute: never attached, attached as None,
\* attached and raising when called, attached and working
Unset == "unset"
IsNone == "none"
Raising == "raises"
Working == "ok"

NoAttribute(name) == << "'KnowledgeBaseRAG' object has no attribute '" \o name \o "'" >>
NoneHasNoAttribute(name) == << "'NoneType' object has no attribute '" \o name \o "'" >>
NameNotDefined(name) == << "name '" \o name \o "' is not defined" >>
CallFailed(name) == << name \o " failed" >>

\* the exception of self.<name>.<method>(...), NoError when the call returns
AttributeCallError(state, name, method) ==
    CASE state = Unset   -> NoAttribute(name)
      [] state = IsNone  -> NoneHasNoAttribute(method)
      [] state = Raising -> CallFailed(name \o "." \o method)
      [] OTHER           -> NoError

-----------------------------------------------------------------------------
(* classify_query_type.  A cosine similarity is a whole number of fifths,  *)
(* a category score and the threshold a whole number of 1/250:             *)
(* 0.7 * max + 0.3 * mean of five similarities m/5 is (35*max + 3*sum)/250 *)

Categories == << "rag", "sql", "prediction" >>

RECURSIVE SumSeq(_)
SumSeq(s) == IF s = <<>> THEN 0 ELSE Head(s) + SumSeq(Tail(s))

MaxOf(s) == CHOOSE m \in Range(s) : \A x \in Range(s) : x <= m

\* 0.7 * max_similarity + 0.3 * avg_similarity
CategoryScore(similarities) == 35 * MaxOf(similarities) + 3 * SumSeq(similarities)

CategoryScores(sims) == [ cat \in Range(Categories) |-> CategoryScore(sims[cat]) ]

\* max(category_scores.items(), key=lambda x: x[1]): the first of the
\* largest, in the order the dict was filled
BestCategory(category_scores) ==
    LET i == CHOOSE k \in DOMAIN Categories :
                 /\ \A j \in DOMAIN Categories :
                        category_scores[Categories[j]] <= category_scores[Categories[k]]
                 /\ \A j \in 1..(k - 1) :
                        category_scores[Categories[j]] < category_scores[Categories[k]]
    IN  Categories[i]

HighScoreCategories(category_scores, confidence_threshold) ==
    SelectSeq(Categories, LAMBDA cat : category_scores[cat] >= confidence_threshold)

CategoryType_BestOnly(category_scores, confidence_threshold) ==
    LET best == BestCategory(category_scores)
    IN  IF category_scores[best] < confidence_threshold THEN "rag" ELSE best

CategoryType(category_scores, confidence_threshold) ==
    LET best == BestCategory(category_scores)
    IN  IF Len(HighScoreCategories(category_scores, confidence_threshold)) > 1 THEN "hybrid"
        ELSE IF category_scores[best] < confidence_threshold THEN "rag"
        ELSE best

\* the exception raised inside the try block, NoError when there is none
ClassifyError(env) ==
    IF env.embedding_model # Working
    THEN AttributeCallError(env.embedding_model, "embedding_model", "encode")
    ELSE IF ~env.cosine_similarity THEN NameNotDefined("cosine_similarity")
    ELSE NoError

ClassifyFallback_Unknown(e) ==
    [ type |-> "unknown", confidence |-> 0, scores |-> <<>>, error |-> e ]
ClassifyFallback(e) ==
    [ type |-> "rag", confidence |-> 0, scores |-> <<>>, error |-> e ]

ClassifyQueryType(env, sims, confidence_threshold) ==
    IF ClassifyError(env) # NoError THEN ClassifyFallback(ClassifyError(env))
    ELSE LET category_scores == CategoryScores(sims)
         IN  [ type       |-> CategoryType(category_scores, confidence_threshold),
               confidence |-> category_scores[BestCategory(category_scores)],
               scores     |-> category_scores ]

\* the similarities of a query to the five exemplars of one category
SimilarityProfiles ==
    { << 0, 0, 0, 0, 0 >>, << 2, 2, 2, 2, 2 >>, << 3, 3, 3, 3, 3 >>,
      << 5, 0, 0, 0, 0 >>, << 2, 3, 5, 3, 2 >>, << 0, 4, 0, 0, 0 >>,
      << 5, 5, 5, 5, 5 >> }
\* 0.4, 0.6 (the default) and 0.8
Thresholds == { 100, 150, 200 }
ClassifyEnvs ==
    [ embedding_model : { Unset, Raising, Working }, cosine_similarity : BOOLEAN ]
ClassifyInputs ==
    [ env : ClassifyEnvs,
      sims : [ Range(Categories) -> SimilarityProfiles ],
      confidence_threshold : Thresholds ]

InitClassifyQuery == pc = "input" /\ fn_in \in ClassifyInputs /\ fn_out = <<>> /\ IdleKb

CallClassifyQueryType ==
    /\ pc = "input"
    /\ fn_out' = ClassifyQueryType(fn_in.env, fn_in.sims, fn_in.confidence_threshold)
    /\ pc' = "output"
    /\ UNCHANGED << fn_in, kbVars >>

SpecClassifyQuery == InitClassifyQuery /\ [][CallClassifyQueryType]_vars

\* the call went through the scoring: no exception inside the try block
ClassifiedByScores == pc = "output" /\ ClassifyError(fn_in.env) = NoError
ClassifyFailed == pc = "output" /\ ClassifyError(fn_in.env) # NoError

ScoreOf(cat) == 35 * MaxOf(fn_in.sims[cat]) + 3 * SumSeq(fn_in.sims[cat])
AtOrAboveThreshold == { cat \in Range(Categories) : ScoreOf(cat) >= fn_in.confidence_threshold }
TopScore == CHOOSE v \in { ScoreOf(cat) : cat \in Range(Categories) } :
                \A cat \in Range(Categories) : ScoreOf(cat) <= v

\* C11: whenever classify_query_type scores the query, the type is hybrid
\* exactly when more than one category score is at or above the threshold;
\* otherwise it is the category with the largest score when that score is
\* at or above the threshold and rag when it is below; the confidence is
\* always the largest score (largest score 0.4, threshold 0.6: rag, 0.4).
C11_TypeAndConfidenceFromScores ==
    ClassifiedByScores =>
        /\ fn_out.confidence = TopScore
        /\ (fn_out.type = "hybrid") <=> (Cardinality(AtOrAboveThreshold) > 1)
        /\ Cardinality(AtOrAboveThreshold) = 1 =>
               /\ ScoreOf(fn_out.type) = TopScore
               /\ AtOrAboveThreshold = { fn_out.type }
        /\ Cardinality(AtOrAboveThreshold) = 0 => fn_out.type = "rag"
        /\ (TopScore = 100 /\ fn_in.confidence_threshold = 150) =>
               (fn_out.type = "rag" /\ fn_out.confidence = 100)

\* a query nearest to sql whose largest score is 0.4, under threshold 0.6
C11_Witness ==
    /\ ClassifiedByScores
    /\ TopScore = 100 /\ fn_in.confidence_threshold = 150
    /\ ScoreOf("sql") = 100 /\ ScoreOf("rag") < 100
    /\ fn_out.type = "rag"

\* C12: when the embedding call fails, classify_query_type returns (it does
\* not raise) type rag with confidence 0.0, and the error text in 'error'.
C12_EmbeddingFailureGivesRag ==
    (pc = "output" /\ fn_in.env.embedding_model # Working) =>
        /\ fn_out.type = "rag" /\ fn_out.confidence = 0
        /\ "error" \in DOMAIN fn_out
        /\ fn_out.error # NoError
        /\ fn_out.error = AttributeCallError(fn_in.env.embedding_model, "embedding_model", "encode")

C12_Witness ==
    /\ pc = "output" /\ fn_in.env.embedding_model = Raising
    /\ fn_out.type = "rag" /\ fn_out.error = CallFailed("embedding_model.encode")
    /\ \E cat \in Range(Categories) : ScoreOf(cat) >= fn_in.confidence_threshold

-----------------------------------------------------------------------------
(* _expand_query                                                           *)

\* the characters str.strip() removes, among those the model uses
Whitespace == { " ", "\t", "\r" }
\* the characters .strip('12.-') removes
MarkerChars == { "1", "2", ".", "-" }
TxtAlternative == <<"A","l","t","e","r","n","a","t","i","v","e">>

\* text.split(sep), sep a single character
RECURSIVE SplitFrom(_, _, _, _)
SplitFrom(s, sep, i, current) ==
    IF i > Len(s) THEN << current >>
    ELSE IF s[i] = sep THEN << current >> \o SplitFrom(s, sep, i + 1, <<>>)
    ELSE SplitFrom(s, sep, i + 1, Append(current, s[i]))
Split(s, sep) == SplitFrom(s, sep, 1, <<>>)

\* s.strip(chars): the longest slice whose first and last characters are
\* outside chars
StripChars(s, chars) ==
    LET kept == { i \in DOMAIN s : s[i] \notin chars }
    IN  IF kept = {} THEN <<>>
        ELSE LET first == CHOOSE i \in kept : \A j \in kept : i <= j
                 last  == CHOOSE i \in kept : \A j \in kept : j <= i
             IN  SubSeq(s, first, last)
Strip(s) == StripChars(s, Whitespace)

StartsWith(s, prefix) == MatchesAt(s, prefix, 1)

Take(s, n) == SubSeq(s, 1, Min({ n, Len(s) }))

\* line.strip() and not line.strip().startswith('Alternative')
IsAlternativeLine(line) == Strip(line) # <<>> /\ ~StartsWith(Strip(line), TxtAlternative)

RECURSIVE ParseAlternatives(_)
ParseAlternatives(lines) ==
    IF lines = <<>> THEN <<>>
    ELSE IF IsAlternativeLine(Head(lines))
         THEN << StripChars(Strip(Head(lines)), MarkerChars) >> \o ParseAlternatives(Tail(lines))
         ELSE ParseAlternatives(Tail(lines))

\* the generator's behaviour: llm.invoke raises; the response has a text
\* 'content'; its 'content' is None; it has no 'content' and str(response)
\* is the text
GeneratorRaises == [ kind |-> "raises" ]
ContentIsNone == [ kind |-> "none" ]
WithContent(text) == [ kind |-> "content", text |-> text ]
WithoutContent(text) == [ kind |-> "str", text |-> text ]

\* the exception raised inside the try block of _expand_query
ExpandError(generator) ==
    CASE generator.kind = "raises" -> CallFailed("llm.invoke")
      [] generator.kind = "none"   -> NoneHasNoAttribute("split")
      [] OTHER                     -> NoError

Alternatives_All(alternatives) == alternatives
Alternatives(alternatives) == Take(alternatives, 2)

ExpandQuery(q, generator) ==
    IF ExpandError(generator) # NoError THEN << q >>
    ELSE << q >> \o Alternatives(ParseAlternatives(Split(generator.text, "\n")))

MaxRespFrags == 3
ResponseFragments ==
    {
      <<"w","h","y"," ","a","?","\n">>,   \* 'why a?\n'
      <<"1","."," ","W","h","a","t"," ","i","s"," ","a","?","\n">>,   \* '1. What is a?\n'
      <<"A","l","t","e","r","n","a","t","i","v","e"," ","1",":"," ","b","\n">>,   \* 'Alternative 1: b\n'
      <<" "," ","\n">>,   \* '  \n'
      <<"\n">>,   \* '\n'
      <<"-"," ","c","-","2">>,   \* '- c-2'
      <<"2",".">>,   \* '2.'
      <<" ","A","l","t","e","r","n","a","t","i","v","e","s",":">> }   \* ' Alternatives:'
ExpansionResponses == Concats(ResponseFragments, MaxRespFrags)
Generators ==
    { GeneratorRaises, ContentIsNone }
        \cup { WithContent(r) : r \in ExpansionResponses }
        \cup { WithoutContent(r) : r \in ExpansionResponses }
ExpandQueries == { <<"1","."," ","w","h","y","?">>, <<"A","l","t","e","r","n","a","t","i","v","e","?">> }

InitExpand ==
    /\ pc = "input" /\ fn_in \in [ query : ExpandQueries, generator : Generators ]
    /\ fn_out = <<>> /\ IdleKb

CallExpandQuery ==
    /\ pc = "input"
    /\ fn_out' = ExpandQuery(fn_in.query, fn_in.generator)
    /\ pc' = "output"
    /\ UNCHANGED << fn_in, kbVars >>

SpecExpand == InitExpand /\ [][CallExpandQuery]_vars

GeneratorFailed == fn_in.generator.kind = "raises"
EmptyResponse == fn_in.generator.kind \in { "content", "str" } /\ fn_in.generator.text = <<>>

\* C13: for every query and every behaviour of the generator, _expand_query
\* returns between 1 and 3 texts, the first being the query unchanged; when
\* the generator raises or answers with an empty text, it returns [query].
C13_VariantsStartWithQuery ==
    pc = "output" =>
        /\ Len(fn_out) >= 1 /\ Len(fn_out) <= 3
        /\ fn_out[1] = fn_in.query
        /\ (GeneratorFailed \/ EmptyResponse) => fn_out = << fn_in.query >>

\* a response of more than two usable lines is cut to two alternatives
C13_Witness ==
    /\ pc = "output" /\ fn_in.generator.kind = "content"
    /\ Len(ParseAlternatives(Split(fn_in.generator.text, "\n"))) = 3
    /\ Len(fn_out) = 3 /\ fn_out[1] = fn_in.query /\ fn_out[2] # fn_in.query

-----------------------------------------------------------------------------
(* Candidates (chunks).  A chunk is the dict _vector_search builds from a  *)
(* point of the similarity store; 'rerank_score' and 'embedding' are keys  *)
(* that later stages add.  An embedding is a direction in the plane, a     *)
(* whole number of 30-degree steps, so that cosine similarities are exact: *)
(* they are counted in hundredths.                                         *)

ChunkIds == { "a", "b", "c", "d" }
DocumentOf == [ id \in ChunkIds |-> IF id \in { "a", "b" } THEN "D1" ELSE "D2" ]
ContentOf == [ id \in ChunkIds |-> CASE id = "a" -> "x" [] id = "b" -> "y"
                                     [] id = "c" -> "x" [] OTHER -> "z" ]
Contents == { ContentOf[id] : id \in ChunkIds }

\* chunk = {'id', 'document_id', 'content', 'similarity', 'chunk_metadata'}
Chunk(point) ==
    [ id |-> point.id, document_id |-> point.document_id, content |-> point.content,
      similarity |-> point.score, chunk_metadata |-> point.metadata ]

\* a point as qdrant.search_similar formats it
StorePoint(id, score) ==
    [ id |-> id, score |-> score, content |-> ContentOf[id],
      document_id |-> DocumentOf[id], metadata |-> <<>> ]

\* d[key] = value on a copy of the dict d
SetKey(d, key, value) ==
    [ k \in DOMAIN d \cup { key } |-> IF k = key THEN value ELSE d[k] ]
HasKey(d, key) == key \in DOMAIN d

\* chunks[:top_k]
Slice(chunks, top_k) ==
    IF top_k >= 0 THEN SubSeq(chunks, 1, Min({ top_k, Len(chunks) }))
    ELSE SubSeq(chunks, 1, Len(chunks) + top_k)

\* what a call returns: a value, or the exception it lets through
Returned(value) == [ raised |-> NoError, value |-> value ]
Raised(e) == [ raised |-> e, value |-> <<>> ]

-----------------------------------------------------------------------------
(* _rerank_results                                                         *)

\* ranked_chunks: every chunk copied, with the scorer's value for its content
ScoredChunks(chunks, scores) ==
    [ i \in DOMAIN chunks |-> SetKey(chunks[i], "rerank_score", scores[chunks[i].content]) ]

\* list.sort(key=..., reverse=True): descending, equal keys keep their order
RECURSIVE InsertDescending(_, _)
InsertDescending(sorted, c) ==
    IF sorted = <<>> THEN << c >>
    ELSE IF Head(sorted).rerank_score >= c.rerank_score
         THEN << Head(sorted) >> \o InsertDescending(Tail(sorted), c)
         ELSE << c >> \o sorted

RECURSIVE InsertAscending(_, _)
InsertAscending(sorted, c) ==
    IF sorted = <<>> THEN << c >>
    ELSE IF Head(sorted).rerank_score <= c.rerank_score
         THEN << Head(sorted) >> \o InsertAscending(Tail(sorted), c)
         ELSE << c >> \o sorted

RECURSIVE SortAscending(_)
SortAscending(chunks) ==
    IF chunks = <<>> THEN <<>>
    ELSE InsertAscending(SortAscending(SubSeq(chunks, 1, Len(chunks) - 1)),
                         chunks[Len(chunks)])

SortByRerankScore_Ascending(chunks) == SortAscending(chunks)

RECURSIVE SortByRerankScore(_)
SortByRerankScore(chunks) ==
    IF chunks = <<>> THEN <<>>
    ELSE InsertDescending(SortByRerankScore(SubSeq(chunks, 1, Len(chunks) - 1)),
                          chunks[Len(chunks)])

\* the scorer: reranker.state is the state of self.reranker, reranker.scores
\* the value predict gives for each content
RerankResults(reranker, chunks, top_k) ==
    IF reranker.state = Unset THEN Raised(NoAttribute("reranker"))
    ELSE IF reranker.state = IsNone \/ chunks = <<>> THEN Returned(Slice(chunks, top_k))
    ELSE IF reranker.state = Raising THEN Returned(Slice(chunks, top_k))
    ELSE Returned(Slice(SortByRerankScore(ScoredChunks(chunks, reranker.scores)), top_k))

\* the lists of chunks given to _rerank_results and _apply_mmr: chunks of
\* distinct ids, with the similarity the store reported
MaxChunks == 3
MaxTopK == 3
StoreScoreOf == [ id \in ChunkIds |-> CASE id = "a" -> 90 [] id = "b" -> 70
                                        [] id = "c" -> 70 [] OTHER -> 40 ]
IdLists ==
    { ids \in UNION { [ 1..n -> ChunkIds ] : n \in 0..MaxChunks } :
          \A i, j \in DOMAIN ids : i # j => ids[i] # ids[j] }
ChunksOf(ids) == [ i \in DOMAIN ids |-> Chunk(StorePoint(ids[i], StoreScoreOf[ids[i]])) ]
ChunkLists == { ChunksOf(ids) : ids \in IdLists }
TopKs == 0..MaxTopK

\* the values of the cross-encoder
RerankScoreLevels == { -2, 0, 3 }
NoScores == [ content \in Contents |-> 0 ]
Rerankers ==
    { [ state |-> s, scores |-> NoScores ] : s \in { Unset, IsNone, Raising } }
        \cup { [ state |-> Working, scores |-> f ] : f \in [ Contents -> RerankScoreLevels ] }

InitRerank ==
    /\ pc = "input"
    /\ fn_in \in [ reranker : Rerankers, chunks : ChunkLists, top_k : TopKs ]
    /\ fn_out = <<>> /\ IdleKb

CallRerankResults ==
    /\ pc = "input"
    /\ fn_out' = RerankResults(fn_in.reranker, fn_in.chunks, fn_in.top_k)
    /\ pc' = "output"
    /\ UNCHANGED << fn_in, kbVars >>

SpecRerank == InitRerank /\ [][CallRerankResults]_vars

IdsOf(chunks) == { chunks[i].id : i \in DOMAIN chunks }
ScorerValue(c) == fn_in.reranker.scores[c.content]
FirstTopK(chunks, k) == [ i \in 1..(IF k < Len(chunks) THEN k ELSE Len(chunks)) |-> chunks[i] ]

\* C17: with a scorer that is available and succeeds, on a non-empty list,
\* _rerank_results returns min(top_k, number of chunks) chunks, each an
\* input chunk carrying the scorer's value as rerank_score, in
\* non-increasing rerank_score order, and no chunk left out has a higher
\* score than a chunk returned.
C17_RerankSortsAndTruncates ==
    (pc = "output" /\ fn_in.reranker.state = Working /\ fn_in.chunks # <<>>) =>
        /\ fn_out.raised = NoError
        /\ Len(fn_out.value) = Min({ fn_in.top_k, Len(fn_in.chunks) })
        /\ \A i \in DOMAIN fn_out.value :
               /\ HasKey(fn_out.value[i], "rerank_score")
               /\ fn_out.value[i].rerank_score = ScorerValue(fn_out.value[i])
               /\ \E j \in DOMAIN fn_in.chunks :
                      fn_out.value[i] =
                          SetKey(fn_in.chunks[j], "rerank_score", ScorerValue(fn_in.chunks[j]))
        /\ \A i, j \in DOMAIN fn_out.value :
               /\ i < j => fn_out.value[i].rerank_score >= fn_out.value[j].rerank_score
               /\ i # j => fn_out.value[i].id # fn_out.value[j].id
        /\ \A j \in DOMAIN fn_in.chunks :
               fn_in.chunks[j].id \notin IdsOf(fn_out.value) =>
                   \A i \in DOMAIN fn_out.value :
                       ScorerValue(fn_in.chunks[j]) <= fn_out.value[i].rerank_score

\* three chunks in increasing score order, cut to the best two
C17_Witness ==
    /\ pc = "output" /\ fn_in.reranker.state = Working
    /\ Len(fn_in.chunks) = 3 /\ fn_in.top_k = 2
    /\ ScorerValue(fn_in.chunks[1]) < ScorerValue(fn_in.chunks[2])
    /\ ScorerValue(fn_in.chunks[2]) < ScorerValue(fn_in.chunks[3])
    /\ Len(fn_out.value) = 2 /\ fn_out.value[1].id = fn_in.chunks[3].id

\* C18: when the scorer is unavailable or the list is empty, _rerank_results
\* does not raise and returns the first top_k chunks of its input, in input
\* order and unchanged.
C18_NoScorerReturnsInputPrefix ==
    (pc = "output" /\ (fn_in.reranker.state \in { Unset, IsNone } \/ fn_in.chunks = <<>>)) =>
        /\ fn_out.raised = NoError
        /\ fn_out.value = FirstTopK(fn_in.chunks, fn_in.top_k)

-----------------------------------------------------------------------------
(* _apply_mmr                                                              *)

\* cosine of two directions, in hundredths: cos of 0, 30, ..., 180 degrees
CosineOfSteps == << 100, 87, 50, 0, -50, -87, -100 >>
cosine_similarity(u, v) ==
    LET d == IF u >= v THEN (u - v) % 12 ELSE (v - u) % 12
    IN  CosineOfSteps[(IF d <= 6 THEN d ELSE 12 - d) + 1]

\* self.embedding_model.encode([content])[0]
EncodingOf == [ content \in Contents |-> CASE content = "x" -> 0 [] content = "y" -> 1
                                           [] OTHER -> 4 ]

\* np.argmax: the first index of the largest value
ArgMax_Last(values) ==
    CHOOSE i \in DOMAIN values :
        /\ \A j \in DOMAIN values : values[j] <= values[i]
        /\ \A j \in (i + 1)..Len(values) : values[j] < values[i]
ArgMax(values) ==
    CHOOSE i \in DOMAIN values :
        /\ \A j \in DOMAIN values : values[j] <= values[i]
        /\ \A j \in 1..(i - 1) : values[j] < values[i]

\* remaining.pop(best_idx)
RemoveAt_Keep(s, i) == s
RemoveAt(s, i) == SubSeq(s, 1, i - 1) \o SubSeq(s, i + 1, Len(s))

\* the early return: nothing to choose from, or nothing to leave out
MmrReturnsInput_Strict(chunks, top_k) == chunks = <<>> \/ Len(chunks) < top_k
MmrReturnsInput(chunks, top_k) == chunks = <<>> \/ Len(chunks) <= top_k

\* the chunks after the loop that attaches the missing embeddings
WithEmbeddings(chunks) ==
    [ i \in DOMAIN chunks |->
        IF HasKey(chunks[i], "embedding") THEN chunks[i]
        ELSE SetKey(chunks[i], "embedding", EncodingOf[chunks[i].content]) ]

\* lambda_param * relevance - (1 - lambda_param) * max_sim, lambda_param in
\* tenths, the result in thousandths
MmrScore(query_emb, chunk, selected, lambda_param) ==
    LET relevance == cosine_similarity(query_emb, chunk.embedding)
        max_sim == MaxOf([ k \in DOMAIN selected |->
                              cosine_similarity(chunk.embedding, selected[k].embedding) ])
    IN  lambda_param * relevance - (10 - lambda_param) * max_sim

BestIndex(query_emb, selected, remaining, lambda_param) ==
    IF selected = <<>>
    THEN ArgMax([ k \in DOMAIN remaining |->
                     cosine_similarity(query_emb, remaining[k].embedding) ])
    ELSE ArgMax([ k \in DOMAIN remaining |->
                     MmrScore(query_emb, remaining[k], selected, lambda_param) ])

\* while len(selected) < top_k and remaining
RECURSIVE MmrLoop(_, _, _, _, _)
MmrLoop(query_emb, selected, remaining, lambda_param, top_k) ==
    IF ~(Len(selected) < top_k /\ remaining # <<>>) THEN selected
    ELSE LET best_idx == BestIndex(query_emb, selected, remaining, lambda_param)
         IN  MmrLoop(query_emb, Append(selected, remaining[best_idx]),
                     RemoveAt(remaining, best_idx), lambda_param, top_k)

\* the exception raised inside the try block of _apply_mmr
MmrError(env, chunks, top_k) ==
    IF env.embedding_model # Working /\ \E i \in DOMAIN chunks : ~HasKey(chunks[i], "embedding")
    THEN AttributeCallError(env.embedding_model, "embedding_model", "encode")
    ELSE IF top_k > 0 /\ ~env.cosine_similarity THEN NameNotDefined("cosine_similarity")
    ELSE NoError

\* chunks[:top_k] of the except branch: the dicts of the input list, with
\* the embeddings the try block attached before it failed
MmrFallback(env, chunks, top_k) ==
    IF env.embedding_model # Working /\ \E i \in DOMAIN chunks : ~HasKey(chunks[i], "embedding")
    THEN Slice(chunks, top_k)
    ELSE Slice(WithEmbeddings(chunks), top_k)

ApplyMmr(env, query_emb, chunks, lambda_param, top_k) ==
    IF MmrReturnsInput(chunks, top_k) THEN chunks
    ELSE IF MmrError(env, chunks, top_k) # NoError THEN MmrFallback(env, chunks, top_k)
    ELSE MmrLoop(query_emb, <<>>, WithEmbeddings(chunks), lambda_param, top_k)

\* the chunks of ids that already carry an embedding (2 and 6 steps)
StoredEmbeddingOf == [ id \in ChunkIds |-> IF id = "a" THEN 2 ELSE 6 ]
Embedded(chunks, ids) ==
    [ i \in DOMAIN chunks |->
        IF chunks[i].id \in ids
        THEN SetKey(chunks[i], "embedding", StoredEmbeddingOf[chunks[i].id])
        ELSE chunks[i] ]
MmrChunkLists ==
    { Embedded(chunks, ids) : chunks \in ChunkLists, ids \in { {}, { "a", "b" } } }
QueryEmbeddings == { 0, 3 }
\* lambda_param: 0.0, 0.7 (what _vector_search passes) and 1.0
LambdaParams == { 0, 7, 10 }
MmrEnvs == [ embedding_model : { Unset, Raising, Working }, cosine_similarity : BOOLEAN ]

InitMmr ==
    /\ pc = "input"
    /\ fn_in \in [ env : MmrEnvs, query_emb : QueryEmbeddings, chunks : MmrChunkLists,
                   lambda_param : LambdaParams, top_k : TopKs ]
    /\ fn_out = <<>> /\ IdleKb

CallApplyMmr ==
    /\ pc = "input"
    /\ fn_out' = ApplyMmr(fn_in.env, fn_in.query_emb, fn_in.chunks,
                          fn_in.lambda_param, fn_in.top_k)
    /\ pc' = "output"
    /\ UNCHANGED << fn_in, kbVars >>

SpecMmr == InitMmr /\ [][CallApplyMmr]_vars

\* a chunk without the embedding a stage may have attached
WithoutEmbedding(c) == [ k \in DOMAIN c \ { "embedding" } |-> c[k] ]
MmrSelects ==
    /\ fn_in.env.embedding_model = Working /\ fn_in.env.cosine_similarity
    /\ Len(fn_in.chunks) > fn_in.top_k /\ fn_in.top_k > 0

\* C19: for a non-empty pool and top_k at least the pool size, _apply_mmr
\* returns the pool itself: the same chunks, in the same order, whatever
\* lambda_param and the query vector are.
C19_MmrKeepsSmallPool ==
    (pc = "output" /\ fn_in.chunks # <<>> /\ fn_in.top_k >= Len(fn_in.chunks)) =>
        fn_out = fn_in.chunks

\* a pool of exactly top_k chunks whose first chunk is not the nearest to
\* the query, with everything MMR needs available
C19_Witness ==
    /\ pc = "output" /\ Len(fn_in.chunks) = 3 /\ fn_in.top_k = 3
    /\ fn_in.env.embedding_model = Working /\ fn_in.env.cosine_similarity
    /\ BestIndex(fn_in.query_emb, <<>>, WithEmbeddings(fn_in.chunks), fn_in.lambda_param) # 1
    /\ fn_out = fn_in.chunks

\* C20: for every list of chunks and every top_k >= 0, _apply_mmr returns
\* exactly min(top_k, number of chunks) chunks, each one a chunk of the
\* input, and none of them twice.
C20_MmrSelectsMinDistinct ==
    (pc = "output" /\ fn_in.top_k >= 0) =>
        /\ Len(fn_out) = Min({ fn_in.top_k, Len(fn_in.chunks) })
        /\ \A i \in DOMAIN fn_out :
               \E j \in DOMAIN fn_in.chunks :
                   WithoutEmbedding(fn_out[i]) = WithoutEmbedding(fn_in.chunks[j])
        /\ \A i, j \in DOMAIN fn_out : i # j => fn_out[i].id # fn_out[j].id

\* MMR chose two of three chunks, and not the first two
C20_Witness ==
    /\ pc = "output" /\ MmrSelects
    /\ Len(fn_in.chunks) = 3 /\ fn_in.top_k = 2 /\ Len(fn_out) = 2
    /\ IdsOf(fn_out) # { fn_in.chunks[1].id, fn_in.chunks[2].id }

-----------------------------------------------------------------------------
(* _vector_search and _basic_vector_search.  A lookup of the similarity    *)
(* store is what qdrant.search_similar does for one query vector: it       *)
(* raises, or it gives the points nearest to the vector, best first, of    *)
(* which the caller receives at most the limit it asked for.               *)

LookupRaises == [ raises |-> TRUE, points |-> <<>> ]
LookupGives(points) == [ raises |-> FALSE, points |-> points ]

\* the exception of self.qdrant.search_similar(...), NoError when it returns
LookupError(qdrant, lookup) ==
    IF qdrant # Working THEN AttributeCallError(qdrant, "qdrant", "search_similar")
    ELSE IF lookup.raises THEN CallFailed("qdrant.search_similar")
    ELSE NoError

\* the chunks built from the points a lookup returns under a limit
LookupChunks(lookup, limit) ==
    LET points == Take(lookup.points, limit)
    IN  [ i \in DOMAIN points |-> Chunk(points[i]) ]

\* _basic_vector_search: every exception gives the empty list
BasicVectorSearch(qdrant, lookup, top_k) ==
    IF LookupError(qdrant, lookup) # NoError THEN <<>>
    ELSE LookupChunks(lookup, top_k)

\* candidates_per_query = max(top_k * 3, 15)
CandidatesPerQuery(top_k) == Max({ top_k * 3, 15 })

IndexOfId(pool, id) == CHOOSE i \in DOMAIN pool : pool[i].id = id

\* all_candidates[chunk_id] = chunk, when the id is new or the similarity
\* is higher than the one kept: a dict keeps the place of a key it has
MergeChunk_NoDedup(pool, chunk) == Append(pool, chunk)
MergeChunk_LastWins(pool, chunk) ==
    IF chunk.id \notin { pool[i].id : i \in DOMAIN pool } THEN Append(pool, chunk)
    ELSE [ pool EXCEPT ![IndexOfId(pool, chunk.id)] = chunk ]
MergeChunk(pool, chunk) ==
    IF chunk.id \notin { pool[i].id : i \in DOMAIN pool } THEN Append(pool, chunk)
    ELSE IF chunk.similarity > pool[IndexOfId(pool, chunk.id)].similarity
         THEN [ pool EXCEPT ![IndexOfId(pool, chunk.id)] = chunk ]
         ELSE pool

RECURSIVE MergeChunks(_, _)
MergeChunks(pool, chunks) ==
    IF chunks = <<>> THEN pool
    ELSE MergeChunks(MergeChunk(pool, Head(chunks)), Tail(chunks))

\* the pool after the lookups of all variants, in order
RECURSIVE MergeLookups(_, _, _)
MergeLookups(pool, lookups, limit) ==
    IF lookups = <<>> THEN pool
    ELSE MergeLookups(MergeChunks(pool, LookupChunks(Head(lookups), limit)),
                      Tail(lookups), limit)

\* the first exception of the retrieval loop over the variants
RetrievalError(env, lookups) ==
    IF lookups = <<>> THEN NoError
    ELSE IF env.embedding_model # Working
         THEN AttributeCallError(env.embedding_model, "embedding_model", "encode")
    ELSE IF env.qdrant # Working
         THEN AttributeCallError(env.qdrant, "qdrant", "search_similar")
    ELSE IF \E i \in DOMAIN lookups : lookups[i].raises
         THEN CallFailed("qdrant.search_similar")
    ELSE NoError

\* the except branch of _vector_search
Fallback_Empty(env, top_k) == <<>>
Fallback(env, top_k) == BasicVectorSearch(env.qdrant, env.basic, top_k)

\* one call of _vector_search: what it returns ('value'), with the path it
\* took, the exception its except branch caught, and the locals
\* query_variants, unique_candidates and reranked
VectorSearch(env, query_embedding, top_k, query_text, use_enhancement) ==
    LET query_variants == ExpandQuery(query_text, env.generator)
        lookups == [ i \in DOMAIN query_variants |-> env.lookups[i] ]
        retrieval_error == RetrievalError(env, lookups)
        unique_candidates == MergeLookups(<<>>, lookups, CandidatesPerQuery(top_k))
        reranking == RerankResults(env.reranker, unique_candidates,
                                   Min({ top_k * 2, Len(unique_candidates) }))
        none == [ path |-> "basic", error |-> NoError, query_variants |-> <<>>,
                  unique_candidates |-> <<>>, reranked |-> <<>>, value |-> <<>> ]
    IN  IF ~use_enhancement \/ query_text = <<>>
        THEN [ none EXCEPT !.value = BasicVectorSearch(env.qdrant, env.basic, top_k) ]
        ELSE IF retrieval_error # NoError
        THEN [ none EXCEPT !.path = "fallback", !.error = retrieval_error,
                           !.query_variants = query_variants,
                           !.value = Fallback(env, top_k) ]
        ELSE IF unique_candidates = <<>>
        THEN [ none EXCEPT !.path = "empty", !.query_variants = query_variants ]
        ELSE IF reranking.raised # NoError
        THEN [ none EXCEPT !.path = "fallback", !.error = reranking.raised,
                           !.query_variants = query_variants,
                           !.unique_candidates = unique_candidates,
                           !.value = Fallback(env, top_k) ]
        ELSE [ path |-> "enhanced", error |-> NoError,
               query_variants |-> query_variants,
               unique_candidates |-> unique_candidates,
               reranked |-> reranking.value,
               value |-> ApplyMmr(env, query_embedding, reranking.value, 7, top_k) ]

MaxSearchTopK == 2
SearchTopKs == 1..MaxSearchTopK
\* the store's answers: none, and two rankings that share ids with
\* different scores
LookupOutcomes ==
    { LookupRaises, LookupGives(<<>>),
      LookupGives(<< StorePoint("a", 90), StorePoint("b", 70) >>),
      LookupGives(<< StorePoint("b", 80), StorePoint("c", 75),
                     StorePoint("a", 60), StorePoint("d", 50) >>) }
BasicOutcomes ==
    { LookupRaises, LookupGives(<<>>),
      LookupGives(<< StorePoint("a", 95), StorePoint("c", 60), StorePoint("d", 30) >>) }
\* the paraphrase generator: failing, one alternative, two alternatives
SearchGenerators ==
    { GeneratorRaises, WithContent(<<"o","n","e","\n">>),
      WithContent(<<"1","."," ","o","n","e","\n","2","."," ","t","w","o","\n">>) }
SearchQueryText == <<"q">>
SearchRerankers ==
    { [ state |-> s, scores |-> NoScores ] : s \in { Unset, IsNone, Raising } }
        \cup { [ state |-> Working,
                 scores |-> [ content \in Contents |->
                                CASE content = "x" -> 0 [] content = "y" -> 3 [] OTHER -> -2 ] ] }
SearchModels ==
    { [ embedding_model |-> Unset, cosine_similarity |-> FALSE ],
      [ embedding_model |-> Raising, cosine_similarity |-> FALSE ],
      [ embedding_model |-> Working, cosine_similarity |-> FALSE ],
      [ embedding_model |-> Working, cosine_similarity |-> TRUE ] }

SearchEnv(generator, lookups, basic, reranker, models, qdrant) ==
    [ generator |-> generator, lookups |-> lookups, basic |-> basic,
      reranker |-> reranker, embedding_model |-> models.embedding_model,
      cosine_similarity |-> models.cosine_similarity, qdrant |-> qdrant ]

\* the environments of a call: one lookup outcome for each variant the
\* generator leads to
SearchEnvs ==
    { SearchEnv(g, l, b, r, m, q) :
        g \in SearchGenerators,
        l \in UNION { [ 1..n -> LookupOutcomes ] : n \in 1..3 },
        b \in BasicOutcomes, r \in SearchRerankers, m \in SearchModels,
        q \in { Unset, Working } }
SearchInputs ==
    { [ env |-> v, query_embedding |-> 3, top_k |-> k, query_text |-> SearchQueryText,
        use_enhancement |-> TRUE ] :
        v \in { w \in SearchEnvs :
                  Len(w.lookups) = Len(ExpandQuery(SearchQueryText, w.generator)) },
        k \in SearchTopKs }
    \cup
    { [ env |-> SearchEnv(GeneratorRaises, << LookupRaises >>, b,
                          [ state |-> Unset, scores |-> NoScores ],
                          [ embedding_model |-> Unset, cosine_similarity |-> FALSE ], q),
        query_embedding |-> 3, top_k |-> k, query_text |-> text, use_enhancement |-> u ] :
        b \in BasicOutcomes, q \in { Unset, Working }, k \in SearchTopKs,
        text \in { <<>>, SearchQueryText }, u \in BOOLEAN }

InitSearch == pc = "input" /\ fn_in \in SearchInputs /\ fn_out = <<>> /\ IdleKb

CallVectorSearch ==
    /\ pc = "input"
    /\ fn_out' = VectorSearch(fn_in.env, fn_in.query_embedding, fn_in.top_k,
                              fn_in.query_text, fn_in.use_enhancement)
    /\ pc' = "output"
    /\ UNCHANGED << fn_in, kbVars >>

SpecSearch == InitSearch /\ [][CallVectorSearch]_vars

-----------------------------------------------------------------------------
(* Claims about _vector_search                                             *)

\* the points the store gave for the variants, in the order of the variants
VariantResults == [ i \in DOMAIN fn_in.env.lookups |-> fn_in.env.lookups[i].points ]
ReportedIds ==
    UNION { { VariantResults[i][j].id : j \in DOMAIN VariantResults[i] } :
            i \in DOMAIN VariantResults }
ReportedSimilarities(id) ==
    UNION { { VariantResults[i][j].score :
                j \in { n \in DOMAIN VariantResults[i] : VariantResults[i][n].id = id } } :
            i \in DOMAIN VariantResults }
Largest(values) == CHOOSE v \in values : \A w \in values : w <= v

\* the enhanced path ran to its end: no step raised and the pool was not empty
EnhancedReturned == pc = "output" /\ fn_out.path = "enhanced"
RerankerScored == fn_in.env.reranker.state = Working

ExactlyTopKDistinct ==
    /\ Len(fn_out.value) =
           (IF fn_in.top_k < Cardinality(ReportedIds) THEN fn_in.top_k
            ELSE Cardinality(ReportedIds))
    /\ \A i, j \in DOMAIN fn_out.value : i # j => fn_out.value[i].id # fn_out.value[j].id

PoolBuilt == pc = "output" /\ fn_out.unique_candidates # <<>>
SimilarityById(pool) == { << pool[i].id, pool[i].similarity >> : i \in DOMAIN pool }
Orders(n) == { p \in [ 1..n -> 1..n ] : \A i, j \in 1..n : i # j => p[i] # p[j] }

\* C15: the pool holds exactly one entry for each distinct id the variant
\* lookups reported, with the largest similarity reported for that id, and
\* merging the variant results in any other order gives the same
\* id-to-similarity mapping.
C15_PoolKeepsHighestSimilarity ==
    PoolBuilt =>
        /\ Len(fn_out.unique_candidates) = Cardinality(ReportedIds)
        /\ { fn_out.unique_candidates[i].id : i \in DOMAIN fn_out.unique_candidates } = ReportedIds
        /\ \A i \in DOMAIN fn_out.unique_candidates :
               fn_out.unique_candidates[i].similarity =
                   Largest(ReportedSimilarities(fn_out.unique_candidates[i].id))
        /\ \A p \in Orders(Len(fn_in.env.lookups)) :
               SimilarityById(MergeLookups(<<>>,
                                  [ i \in DOMAIN p |-> fn_in.env.lookups[p[i]] ],
                                  CandidatesPerQuery(fn_in.top_k)))
                   = SimilarityById(fn_out.unique_candidates)

\* an id reported with a higher similarity by a later variant (b: 70, then
\* 80) and one reported with a lower similarity (a: 90, then 60)
C15_Witness ==
    /\ PoolBuilt /\ Len(VariantResults) >= 2
    /\ ReportedSimilarities("b") = { 70, 80 } /\ VariantResults[1][2].score = 70
    /\ ReportedSimilarities("a") = { 60, 90 } /\ VariantResults[1][1].score = 90
    /\ << "b", 80 >> \in SimilarityById(fn_out.unique_candidates)
    /\ << "a", 90 >> \in SimilarityById(fn_out.unique_candidates)

\* a step of the enhanced path raised
EnhancedStepRaised == pc = "output" /\ fn_out.error # NoError
\* one lookup of the store for top_k points nearest to the original query
\* vector, the empty list if that lookup fails
SingleLookupForTopK ==
    IF fn_in.env.qdrant = Working /\ ~fn_in.env.basic.raises
    THEN [ i \in 1..(IF fn_in.top_k < Len(fn_in.env.basic.points) THEN fn_in.top_k
                     ELSE Len(fn_in.env.basic.points)) |->
             [ id |-> fn_in.env.basic.points[i].id,
               document_id |-> fn_in.env.basic.points[i].document_id,
               content |-> fn_in.env.basic.points[i].content,
               similarity |-> fn_in.env.basic.points[i].score,
               chunk_metadata |-> fn_in.env.basic.points[i].metadata ] ]
    ELSE <<>>

\* C16: when a step of the enhanced path raises (embedding a variant, a
\* variant's lookup, reranking, MMR), _vector_search returns what the basic
\* path returns: the result of a single lookup for top_k points with the
\* original query vector.
C16_FailureFallsBackToBasic ==
    EnhancedStepRaised => fn_out.value = SingleLookupForTopK

\* the pool was built, reranking raised, and the basic lookup found points
C16_Witness ==
    /\ EnhancedStepRaised /\ fn_out.unique_candidates # <<>>
    /\ fn_out.error = NoAttribute("reranker")
    /\ Len(fn_out.value) = fn_in.top_k /\ fn_out.value[1].similarity = 95

-----------------------------------------------------------------------------
(* Claims about the score and the tier of _classify_query_complexity       *)

\* the word occurs in the text as it is written
OccursLiterally(q, word) ==
    \E i \in 1..Len(q) : \A k \in 1..Len(word) : i + k - 1 <= Len(q) /\ q[i + k - 1] = word[k]
HasTemporalKeyword(q) == \E k \in DOMAIN TemporalWords : OccursLiterally(q, TemporalWords[k])

Weight(present, w) == IF present THEN w ELSE 0
\* each marker weighs once: join 2, grouping 1, having 2, nested query 3,
\* temporal keyword 1
MarkerWeights(q) ==
      Weight(JoinClauses(q) >= 1, 2) + Weight(HasGroupBy(q), 1) + Weight(HasHaving(q), 2)
    + Weight(HasNestedSelect(q), 3) + Weight(HasTemporalKeyword(q), 1)

C29_TierIgnoresLetterCase ==
    pc = "output" =>
        /\ fn_out.tier = ClassifyQueryComplexity(Upper(fn_in))
        /\ fn_out.tier = ClassifyQueryComplexity(Lower(fn_in))

-----------------------------------------------------------------------------
(* Claims about _remove_decimals_from_response applied twice               *)

\* C27: _remove_decimals_from_response is idempotent: applied to its own
\* output, it returns that output unchanged.
C27_RemoveDecimalsIdempotent ==
    pc = "output" => RemoveDecimalsFromResponse(fn_out) = fn_out

-----------------------------------------------------------------------------
(* Claims about the alternatives _expand_query parses                      *)

EnumerationMarkers == { << "1", "." >>, << "2", "." >>, << "-" >> }
\* the line without the whitespace around it and without the enumeration
\* marker it begins with, every other character kept
WithoutMarker(line) ==
    LET text == Strip(line)
        markers == { m \in EnumerationMarkers : StartsWith(text, m) }
    IN  IF markers = {} THEN text
        ELSE LET m == CHOOSE x \in markers : TRUE
             IN  Strip(SubSeq(text, Len(m) + 1, Len(text)))
\* the lines of the response that are not blank, in order
NonBlankLines(text) == SelectSeq(Split(text, "\n"), LAMBDA line : Strip(line) # <<>>)

\* C25: every element of the result after the first is a non-empty text:
\* the i-th alternative is the i-th non-blank line of the response (i = 1,
\* 2) without its enumeration marker and the whitespace around it, all
\* other characters kept.
C25_AlternativesAreCleanLines ==
    (pc = "output" /\ fn_in.generator.kind \in { "content", "str" }) =>
        \A i \in 2..Len(fn_out) :
            /\ fn_out[i] # <<>>
            /\ i - 1 <= Len(NonBlankLines(fn_in.generator.text))
            /\ fn_out[i] = WithoutMarker(NonBlankLines(fn_in.generator.text)[i - 1])

-----------------------------------------------------------------------------
(* _enhance_time_based_query on the queries 'last N months', for every     *)
(* current month                                                           *)

MaxMonthsBack == 13
EnhanceDates ==
    { d \in [ year : { 2026 }, month : 1..12, day : { 15, 31 } ] :
          d.day <= DaysInMonth(d.year, d.month) }
LastMonthsQuery(n) == <<"s","a","l","e","s"," ","l","a","s","t"," ">> \o NatToText(n) \o <<" ","m","o","n","t","h","s">>

\* one call: the value returned, or the exception that leaves the method
EnhanceCall(q, current) ==
    IF EnhanceError(q, current) # NoError THEN Raised(EnhanceError(q, current))
    ELSE Returned(EnhanceTimeBasedQuery(q, current))

InitEnhance ==
    /\ pc = "input"
    /\ fn_in \in [ current : EnhanceDates, n : 0..MaxMonthsBack ]
    /\ fn_out = <<>> /\ IdleKb

CallEnhanceTimeBasedQuery ==
    /\ pc = "input"
    /\ fn_out' = EnhanceCall(LastMonthsQuery(fn_in.n), fn_in.current)
    /\ pc' = "output"
    /\ UNCHANGED << fn_in, kbVars >>

SpecEnhance == InitEnhance /\ [][CallEnhanceTimeBasedQuery]_vars

\* the month N months before the current one, counted in months since year 0
MonthsSinceYearZero(d) == d.year * 12 + (d.month - 1)
ExpectedStartYear == (MonthsSinceYearZero(fn_in.current) - fn_in.n) \div 12
ExpectedStartMonth == ((MonthsSinceYearZero(fn_in.current) - fn_in.n) % 12) + 1
ExpectedMonthsHint ==
    <<" ","[","D","a","t","e"," ","c","o","n","t","e","x","t",":"," ","l","a","s","t"," ">> \o NatToText(fn_in.n)
        \o <<" ","m","o","n","t","h","(","s",")"," ","="," ">>
        \o YearMonthText(ExpectedStartYear, ExpectedStartMonth)
        \o <<" ","t","o"," ">>
        \o YearMonthText(fn_in.current.year, fn_in.current.month) \o << "]" >>

\* C28: for every current month and every N >= 0 of a query 'last N
\* months', _enhance_time_based_query does not raise and returns the query
\* followed by the date-context hint, whose start month is in 1..12 and,
\* with the start year, lies exactly N months before the current month.
C28_LastMonthsHintIsExact ==
    pc = "output" =>
        /\ fn_out.raised = NoError
        /\ fn_out.value = LastMonthsQuery(fn_in.n) \o ExpectedMonthsHint

-----------------------------------------------------------------------------
(* _apply_mmr: the order of the selection                                  *)

\* the vector _apply_mmr uses for a chunk: the one it carries, or the
\* encoding of its content
EmbeddingUsed(c) == IF HasKey(c, "embedding") THEN c.embedding ELSE EncodingOf[c.content]
QuerySimilarity(c) == cosine_similarity(fn_in.query_emb, EmbeddingUsed(c))
NotReturned == { i \in DOMAIN fn_in.chunks : fn_in.chunks[i].id \notin IdsOf(fn_out) }

\* C21: with lambda_param = 1.0 and more candidates than top_k, _apply_mmr
\* returns top_k candidates in non-increasing order of cosine similarity to
\* the query vector, and no candidate left out is nearer to the query than
\* one that was returned.
C21_PureRelevanceOrder ==
    (pc = "output" /\ fn_in.lambda_param = 10 /\ fn_in.top_k >= 0
        /\ Len(fn_in.chunks) > fn_in.top_k) =>
        /\ Len(fn_out) = fn_in.top_k
        /\ \A i, j \in DOMAIN fn_out :
               i < j => QuerySimilarity(fn_out[i]) >= QuerySimilarity(fn_out[j])
        /\ \A i \in DOMAIN fn_out : \A j \in NotReturned :
               QuerySimilarity(fn_out[i]) >= QuerySimilarity(fn_in.chunks[j])

\* the candidates still in `remaining` when the k-th chunk is selected, in
\* pool order, with the embeddings attached
SelectedBefore(k) == SubSeq(fn_out, 1, k - 1)
RemainingBefore(k) ==
    LET pool == WithEmbeddings(fn_in.chunks)
        Left(c) == c.id \notin IdsOf(SelectedBefore(k))
    IN  SelectSeq(pool, Left)
\* lambda * cosine(query, c) - (1 - lambda) * max over selected s of
\* cosine(c, s), in thousandths
Marginal(c, k) ==
    fn_in.lambda_param * QuerySimilarity(c)
        - (10 - fn_in.lambda_param)
            * Max({ cosine_similarity(EmbeddingUsed(c), EmbeddingUsed(SelectedBefore(k)[s])) :
                        s \in 1..(k - 1) })
PositionIn(seq, c) == CHOOSE i \in DOMAIN seq : seq[i].id = c.id

\* C24: in every selection step of _apply_mmr after the first, the chunk
\* moved to the selected list maximizes lambda * cosine(query, c) -
\* (1 - lambda) * max over the selected s of cosine(c, s) among the
\* remaining candidates, and among the candidates that share the maximum
\* it is the earliest in pool order.
C24_StepTakesEarliestArgMax ==
    (pc = "output" /\ MmrSelects) =>
        \A k \in 2..Len(fn_out) :
            LET rem == RemainingBefore(k)
                at == PositionIn(rem, fn_out[k])
            IN  /\ \E i \in DOMAIN rem : rem[i] = fn_out[k]
                /\ \A i \in DOMAIN rem : Marginal(rem[i], k) <= Marginal(fn_out[k], k)
                /\ \A i \in 1..(at - 1) : Marginal(rem[i], k) < Marginal(fn_out[k], k)

\* a second step in which two remaining candidates share the largest
\* value and the earlier one was taken
C24_Witness ==
    /\ pc = "output" /\ MmrSelects /\ Len(fn_out) >= 2
    /\ LET rem == RemainingBefore(2)
       IN  /\ fn_out[2] = rem[1]
           /\ \E i \in 2..Len(rem) : Marginal(rem[i], 2) = Marginal(fn_out[2], 2)
           /\ fn_in.lambda_param = 7

-----------------------------------------------------------------------------
(* DocumentProcessor._simple_chunk, the chunker _chunk_text falls back to. *)
(* fn_in holds the arguments, fn_out the locals `chunks` and `start`; one  *)
(* action is one iteration of the while loop.                              *)

MaxChunkTextLen == 5
MaxChunkSize == 3
\* the iterations modelled for arguments under which the loop never ends
MaxChunkSteps == MaxChunkTextLen + 1

ChunkTexts == UNION { [ 1..n -> { "a", "b" } ] : n \in 0..MaxChunkTextLen }

\* text[start:end] for 0 <= start <= end
TextSlice(text, start, end) == SubSeq(text, start + 1, Min({ end, Len(text) }))

\* start = end - overlap
NextStart_NoOverlap(end, overlap) == end
NextStart(end, overlap) == end - overlap

InitSimpleChunk ==
    /\ pc = "input"
    /\ fn_in \in { a \in [ text : ChunkTexts, chunk_size : 1..MaxChunkSize,
                           overlap : 0..MaxChunkSize ] : a.overlap <= a.chunk_size }
    /\ fn_out = <<>> /\ IdleKb

\* chunks = []; start = 0
CallSimpleChunk ==
    /\ pc = "input"
    /\ fn_out' = [ chunks |-> <<>>, start |-> 0 ]
    /\ pc' = "loop"
    /\ UNCHANGED << fn_in, kbVars >>

\* one pass of the body of `while start < len(text)`
SimpleChunkStep ==
    /\ pc = "loop"
    /\ fn_out.start < Len(fn_in.text)
    /\ Len(fn_out.chunks) < MaxChunkSteps
    /\ LET end == fn_out.start + fn_in.chunk_size
       IN  fn_out' = [ chunks |-> Append(fn_out.chunks,
                                         TextSlice(fn_in.text, fn_out.start, end)),
                       start |-> NextStart(end, fn_in.overlap) ]
    /\ UNCHANGED << pc, fn_in, kbVars >>

\* return chunks
SimpleChunkReturn ==
    /\ pc = "loop"
    /\ ~(fn_out.start < Len(fn_in.text))
    /\ pc' = "output"
    /\ UNCHANGED << fn_in, fn_out, kbVars >>

NextSimpleChunk == CallSimpleChunk \/ SimpleChunkStep \/ SimpleChunkReturn

\* the method runs on its own thread of control until it returns
SpecSimpleChunk ==
    InitSimpleChunk /\ [][NextSimpleChunk]_vars /\ WF_vars(NextSimpleChunk)

ValidChunkArgs == fn_in.chunk_size >= 1 /\ 0 <= fn_in.overlap /\ fn_in.overlap < fn_in.chunk_size
ChunkStride == fn_in.chunk_size - fn_in.overlap
\* the 0-based position in the text at which the i-th chunk starts
ChunkStart(i) == (i - 1) * ChunkStride
ChunksWellFormed ==
    \A i \in DOMAIN fn_out.chunks :
        /\ Len(fn_out.chunks[i]) <= fn_in.chunk_size
        /\ ChunkStart(i) < Len(fn_in.text)
        /\ \A k \in DOMAIN fn_out.chunks[i] :
               fn_out.chunks[i][k] = fn_in.text[ChunkStart(i) + k]
EveryCharacterChunked ==
    \A p \in DOMAIN fn_in.text :
        \E i \in DOMAIN fn_out.chunks :
            ChunkStart(i) < p /\ p <= ChunkStart(i) + Len(fn_out.chunks[i])

\* C30: for every text, chunk_size >= 1 and 0 <= overlap < chunk_size,
\* _simple_chunk returns; every chunk it has produced has at most chunk_size
\* characters and is the part of the text that starts chunk_size - overlap
\* characters after the start of the chunk before it, and when it returns
\* every character of the text lies in at least one chunk.
C30_SimpleChunkTerminatesAndCovers ==
    /\ []((ValidChunkArgs /\ pc \in { "loop", "output" }) => ChunksWellFormed)
    /\ []((ValidChunkArgs /\ pc = "output") => EveryCharacterChunked)
    /\ [](ValidChunkArgs => <>(pc = "output"))

\* three overlapping chunks, the last one shorter than chunk_size
C30_Witness ==
    /\ pc = "output" /\ ValidChunkArgs
    /\ fn_in.overlap = 1 /\ fn_in.chunk_size = 3 /\ Len(fn_in.text) = 5
    /\ Len(fn_out.chunks) = 3
    /\ Len(fn_out.chunks[3]) = 1

-----------------------------------------------------------------------------
(* query_kb: the attempts of one call follow one another                   *)

RunningAttempts == { i \in DOMAIN attempts : attempts[i].outcome = "running" }

\* C22: within one query_kb call the attempts are strictly sequential: an
\* attempt is started only when every attempt before it has ended in an
\* error and the backoff wait after each of them has completed, no attempt
\* follows a successful one, and at most one attempt is in progress.
C22_AttemptsStrictlySequential ==
    /\ \A i \in DOMAIN attempts :
           /\ attempts[i].attempt = i - 1
           /\ i < Len(attempts) => attempts[i].outcome = "error"
           /\ i < Len(attempts) => Len(sleeps) >= i
    /\ Cardinality(RunningAttempts) <= 1
    /\ RunningAttempts # {} <=> pc = "running"
    /\ pc = "running" => Len(sleeps) = Len(attempts) - 1
    /\ Len(sleeps) <= Len(attempts)

\* the third attempt is in progress after two failed attempts and two waits
C22_Witness ==
    /\ pc = "running" /\ Len(attempts) = max_retries
    /\ attempts[1].outcome = "error" /\ attempts[2].outcome = "error"
    /\ Len(sleeps) = 2

-----------------------------------------------------------------------------
(* What the retrieval stages do to the records they are given: fn_out      *)
(* holds what the stage returned and the caller's list after the call.     *)

\* the dicts of the caller's list after _apply_mmr: `remaining` is a copy of
\* the list, not of its dicts, so an embedding attached to a chunk of
\* `remaining` is attached to the caller's chunk
ChunksAfterMmr(env, chunks, top_k) ==
    IF MmrReturnsInput(chunks, top_k) THEN chunks
    ELSE IF env.embedding_model # Working THEN chunks
    ELSE WithEmbeddings(chunks)

\* the dicts of the caller's list after _rerank_results, which scores and
\* sorts copies
ChunksAfterRerank(chunks) == chunks

StageInputs ==
    [ stage : { "mmr" }, env : MmrEnvs, reranker : { [ state |-> IsNone, scores |-> NoScores ] },
      chunks : MmrChunkLists, top_k : TopKs ]
        \cup [ stage : { "rerank" },
               env : { [ embedding_model |-> Unset, cosine_similarity |-> FALSE ] },
               reranker : Rerankers, chunks : ChunkLists, top_k : TopKs ]

InitStages ==
    /\ pc = "input"
    /\ fn_in \in StageInputs
    /\ fn_out = <<>> /\ IdleKb

\* _apply_mmr(query_emb, chunks, 0.7, top_k), as _vector_search calls it
CallMmrStage ==
    /\ pc = "input" /\ fn_in.stage = "mmr"
    /\ fn_out' = [ returned |-> Returned(ApplyMmr(fn_in.env, 0, fn_in.chunks, 7, fn_in.top_k)),
                   chunks   |-> ChunksAfterMmr(fn_in.env, fn_in.chunks, fn_in.top_k) ]
    /\ pc' = "output"
    /\ UNCHANGED << fn_in, kbVars >>

CallRerankStage ==
    /\ pc = "input" /\ fn_in.stage = "rerank"
    /\ fn_out' = [ returned |-> RerankResults(fn_in.reranker, fn_in.chunks, fn_in.top_k),
                   chunks   |-> ChunksAfterRerank(fn_in.chunks) ]
    /\ pc' = "output"
    /\ UNCHANGED << fn_in, kbVars >>

NextStages == CallMmrStage \/ CallRerankStage
SpecStages == InitStages /\ [][NextStages]_vars

=============================================================================
